---- MODULE Spec2Model ----
(***************************************************************************)
(* Verification model of the daily puzzle solvers.  Every day is an        *)
(* independent program: it has its own variables, its own initial states   *)
(* (the parsed input) and its own specification.  A day that is not the    *)
(* one being run keeps its variables at the idle value <<>>.               *)
(***************************************************************************)
EXTENDS Integers, Sequences, FiniteSets, TLC

VARIABLES
    pc,               \* position of the running exercise
    exercise,         \* "first" or "second": the entry point being run
    result,           \* the value the entry point returns (None until then)
    topographic_map,  \* day 10: the 2D array of heights
    dict_routes,      \* day 10: trailhead -> list of its split routes
    start_index,      \* day 10: position in the loop over _start_indexes
    towel_patterns,   \* day 19: the list of available patterns
    desired_designs,  \* day 19: the list of designs to make
    design_index,     \* day 19: position of the sum's generator
    total,            \* day 19: the running value of sum(...)
    maze,             \* day 16: the 2D array of the running call
    best_global,      \* day 16: the module's global best_global
    visited_scores,   \* day 16: (x, y, direction) -> score
    best_score,       \* day 16: the value _solve_maze_best_score returned
    all_seats,        \* day 16: the list _backtrack_paths returned
    calls,            \* day 16: the number of calls made so far
    map_positions,    \* day 06: the padded 2D array
    guard_position,   \* day 06: the local position of the running walk
    guard_direction,  \* day 06: the local direction of the running walk
    dict_distinct_positions,
                      \* day 06: the keys of the dict, in insertion order
    visited_index,    \* day 06: position in the loop over visited_positions
    n_obstructions,   \* day 06: the counter of second_exercise
    map_positions_temp,
                      \* day 06: the copy that holds the new obstacle
    dict_distinct_positions_and_directions,
                      \* day 06: the loop keys seen by the simulated walk
    equations,        \* day 07: the list of Equation objects
    operators,        \* day 07: the list of operator keys
    equation_index,   \* day 07: position in the loop over equations
    dict_equations_solved,
                      \* day 07: target -> list of the solved numbers lists
    line,             \* day 11: the stones of the file, as split(" ") lists them
    number_of_blinks, \* day 11: the argument of _solve
    blink,            \* day 11: the number of passes of the for loop made
    stones,           \* day 11: the Counter of the stones, stone -> count
    garden,           \* day 12: the 2D array of plants
    garden_plants_all,
                      \* day 12: the list of the dicts of _get_garden_plant, each a list of regions
    plant_index,      \* day 12: position in np.unique(garden)
    garden_index,     \* day 12: position in the loop over garden_plants_all
    region_index,     \* day 12: position in the loop over garden_plants.values()
    machine,          \* day 13: the Machine given to _best_play
    warehouse,        \* day 15: the 2D array, widened
    movements,        \* day 15: the part of the movements string not read yet
    last_movement,    \* day 15: the loop variable, the last movement applied
    boxes_to_move,    \* day 15: the list the last pass built, <<>> if none
    next_is_empty,    \* day 15: the flag the last pass computed, FALSE if none
    registers,        \* day 17: the dict of registers A, B and C
    program,          \* day 17: the list of (opcode, operand) pairs
    instruction_pointer,
                      \* day 17: position in program, from 0
    outputs,          \* day 17: the values appended by opcode 5
    suffix_index,     \* day 17: i of second_exercise
    output,           \* day 17: the last string _apply_program returned to second_exercise
    maze20,           \* day 20: the 2D array of the racetrack
    at_least,         \* day 20: the argument of first_exercise
    visited_scores20, \* day 20: the dict of first_exercise, (x, y) -> score
    rules,            \* day 05: the rules of the file, a list of X|Y pairs
    updates,          \* day 05: the updates of the file, each a list of pages
    update_index,     \* day 05: position in the loop over updates
    pages,            \* day 05: the pages of the update given to _correct_pages_order
    pages_copy,       \* day 05: the local list the while loop empties
    current_numbers_before,
                      \* day 05: the local dict, page -> pages still to come before it
    pages_corrected,  \* day 05: the local list the while loop fills
    middle_pages_to_sum,
                      \* day 05: the list of second_exercise
    codes,            \* day 21: list of Code(operation, complexity) read from the file
    number_of_directional_keypads,
                      \* day 21: argument of _compute_complexity
    code_index,       \* day 21: how many codes the for loop has taken
    total_length_code,
                      \* day 21: length computed for the last code taken
    total_complexity, \* day 21: running sum of length * complexity
    operations,       \* day 24: list of Operation(left, right, logical_operator_str, result_wire)
    operations_clean, \* day 24: the deep copy taken on entry
    wire_values,      \* day 24: dict from wire name to 0 or 1
    n_bits,           \* day 24: number of operations whose result wire starts with z
    bit_index,        \* day 24: the i of the for loop of second_exercise
    carry             \* day 24: the carry gate the last call returned

vars10 == <<topographic_map, dict_routes, start_index>>
vars19 == <<towel_patterns, desired_designs, design_index, total>>
vars16 ==
    <<maze, best_global, visited_scores, best_score, all_seats, calls>>
vars06 ==
    <<map_positions, guard_position, guard_direction, dict_distinct_positions,
      visited_index, n_obstructions, map_positions_temp,
      dict_distinct_positions_and_directions>>
vars07 == <<equations, operators, equation_index, dict_equations_solved>>
vars11 ==
    <<line,
      number_of_blinks,
      blink,
      stones>>
vars12 ==
    <<garden,
      garden_plants_all,
      plant_index,
      garden_index,
      region_index>>
vars13 ==
    <<machine>>
vars15 ==
    <<warehouse,
      movements,
      last_movement,
      boxes_to_move,
      next_is_empty>>
vars17 ==
    <<registers,
      program,
      instruction_pointer,
      outputs,
      suffix_index,
      output>>
vars20 ==
    <<maze20,
      at_least,
      visited_scores20>>
vars05 ==
    <<rules,
      updates,
      update_index,
      pages,
      pages_copy,
      current_numbers_before,
      pages_corrected,
      middle_pages_to_sum>>
vars21 ==
    <<codes,
      number_of_directional_keypads,
      code_index,
      total_length_code,
      total_complexity>>
vars24 ==
    <<operations,
      operations_clean,
      wire_values,
      n_bits,
      bit_index,
      carry>>
vars ==
    <<pc, exercise, result,
      vars10, vars19, vars16, vars06, vars07,
      vars11, vars12, vars13, vars15, vars17,
      vars20, vars05, vars21, vars24>>

\* What a day leaves alone: the variables of the other days.
others05 ==
    <<vars06, vars07, vars10, vars11, vars12,
      vars13, vars15, vars16, vars17, vars19,
      vars20, vars21, vars24>>
others06 ==
    <<vars05, vars07, vars10, vars11, vars12,
      vars13, vars15, vars16, vars17, vars19,
      vars20, vars21, vars24>>
others07 ==
    <<vars05, vars06, vars10, vars11, vars12,
      vars13, vars15, vars16, vars17, vars19,
      vars20, vars21, vars24>>
others10 ==
    <<vars05, vars06, vars07, vars11, vars12,
      vars13, vars15, vars16, vars17, vars19,
      vars20, vars21, vars24>>
others11 ==
    <<vars05, vars06, vars07, vars10, vars12,
      vars13, vars15, vars16, vars17, vars19,
      vars20, vars21, vars24>>
others12 ==
    <<vars05, vars06, vars07, vars10, vars11,
      vars13, vars15, vars16, vars17, vars19,
      vars20, vars21, vars24>>
others13 ==
    <<vars05, vars06, vars07, vars10, vars11,
      vars12, vars15, vars16, vars17, vars19,
      vars20, vars21, vars24>>
others15 ==
    <<vars05, vars06, vars07, vars10, vars11,
      vars12, vars13, vars16, vars17, vars19,
      vars20, vars21, vars24>>
others16 ==
    <<vars05, vars06, vars07, vars10, vars11,
      vars12, vars13, vars15, vars17, vars19,
      vars20, vars21, vars24>>
others17 ==
    <<vars05, vars06, vars07, vars10, vars11,
      vars12, vars13, vars15, vars16, vars19,
      vars20, vars21, vars24>>
others19 ==
    <<vars05, vars06, vars07, vars10, vars11,
      vars12, vars13, vars15, vars16, vars17,
      vars20, vars21, vars24>>
others20 ==
    <<vars05, vars06, vars07, vars10, vars11,
      vars12, vars13, vars15, vars16, vars17,
      vars19, vars21, vars24>>
others21 ==
    <<vars05, vars06, vars07, vars10, vars11,
      vars12, vars13, vars15, vars16, vars17,
      vars19, vars20, vars24>>
others24 ==
    <<vars05, vars06, vars07, vars10, vars11,
      vars12, vars13, vars15, vars16, vars17,
      vars19, vars20, vars21>>

None == "None"

Idle10 == topographic_map = <<>> /\ dict_routes = <<>> /\ start_index = 0

Idle16 ==
    /\ maze = <<>> /\ best_global = None /\ visited_scores = <<>>
    /\ best_score = None /\ all_seats = <<>> /\ calls = 0

Idle19 ==
    /\ towel_patterns = <<>> /\ desired_designs = <<>>
    /\ design_index = 0 /\ total = 0

Idle06 ==
    /\ map_positions = <<>> /\ guard_position = <<>> /\ guard_direction = None
    /\ dict_distinct_positions = <<>> /\ visited_index = 0
    /\ n_obstructions = 0 /\ map_positions_temp = <<>>
    /\ dict_distinct_positions_and_directions = {}

Idle07 ==
    /\ equations = <<>> /\ operators = <<>> /\ equation_index = 0
    /\ dict_equations_solved = <<>>

Idle11 ==
    /\ line = <<>> /\ number_of_blinks = 0 /\ blink = 0 /\ stones = <<>>

Idle12 ==
    /\ garden = <<>> /\ garden_plants_all = <<>> /\ plant_index = 0
    /\ garden_index = 0 /\ region_index = 0

Idle13 ==
    /\ machine = <<>>

Idle15 ==
    /\ warehouse = <<>> /\ movements = <<>> /\ last_movement = None
    /\ boxes_to_move = <<>> /\ next_is_empty = FALSE

Idle17 ==
    /\ registers = <<>> /\ program = <<>> /\ instruction_pointer = 0
    /\ outputs = <<>> /\ suffix_index = 0 /\ output = None

Idle20 ==
    /\ maze20 = <<>> /\ at_least = 0 /\ visited_scores20 = <<>>

Idle05 ==
    /\ rules = <<>> /\ updates = <<>> /\ update_index = 0 /\ pages = <<>>
    /\ pages_copy = <<>> /\ current_numbers_before = <<>>
    /\ pages_corrected = <<>> /\ middle_pages_to_sum = <<>>

Idle21 ==
    /\ codes = <<>> /\ number_of_directional_keypads = 0 /\ code_index = 0
    /\ total_length_code = 0 /\ total_complexity = 0

Idle24 ==
    /\ operations = <<>> /\ operations_clean = <<>> /\ wire_values = <<>>
    /\ n_bits = 0 /\ bit_index = 0 /\ carry = <<>>

IdleOthers05 ==
    /\ Idle06 /\ Idle07 /\ Idle10 /\ Idle11 /\ Idle12
    /\ Idle13 /\ Idle15 /\ Idle16 /\ Idle17 /\ Idle19
    /\ Idle20 /\ Idle21 /\ Idle24
IdleOthers06 ==
    /\ Idle05 /\ Idle07 /\ Idle10 /\ Idle11 /\ Idle12
    /\ Idle13 /\ Idle15 /\ Idle16 /\ Idle17 /\ Idle19
    /\ Idle20 /\ Idle21 /\ Idle24
IdleOthers07 ==
    /\ Idle05 /\ Idle06 /\ Idle10 /\ Idle11 /\ Idle12
    /\ Idle13 /\ Idle15 /\ Idle16 /\ Idle17 /\ Idle19
    /\ Idle20 /\ Idle21 /\ Idle24
IdleOthers10 ==
    /\ Idle05 /\ Idle06 /\ Idle07 /\ Idle11 /\ Idle12
    /\ Idle13 /\ Idle15 /\ Idle16 /\ Idle17 /\ Idle19
    /\ Idle20 /\ Idle21 /\ Idle24
IdleOthers11 ==
    /\ Idle05 /\ Idle06 /\ Idle07 /\ Idle10 /\ Idle12
    /\ Idle13 /\ Idle15 /\ Idle16 /\ Idle17 /\ Idle19
    /\ Idle20 /\ Idle21 /\ Idle24
IdleOthers12 ==
    /\ Idle05 /\ Idle06 /\ Idle07 /\ Idle10 /\ Idle11
    /\ Idle13 /\ Idle15 /\ Idle16 /\ Idle17 /\ Idle19
    /\ Idle20 /\ Idle21 /\ Idle24
IdleOthers13 ==
    /\ Idle05 /\ Idle06 /\ Idle07 /\ Idle10 /\ Idle11
    /\ Idle12 /\ Idle15 /\ Idle16 /\ Idle17 /\ Idle19
    /\ Idle20 /\ Idle21 /\ Idle24
IdleOthers15 ==
    /\ Idle05 /\ Idle06 /\ Idle07 /\ Idle10 /\ Idle11
    /\ Idle12 /\ Idle13 /\ Idle16 /\ Idle17 /\ Idle19
    /\ Idle20 /\ Idle21 /\ Idle24
IdleOthers16 ==
    /\ Idle05 /\ Idle06 /\ Idle07 /\ Idle10 /\ Idle11
    /\ Idle12 /\ Idle13 /\ Idle15 /\ Idle17 /\ Idle19
    /\ Idle20 /\ Idle21 /\ Idle24
IdleOthers17 ==
    /\ Idle05 /\ Idle06 /\ Idle07 /\ Idle10 /\ Idle11
    /\ Idle12 /\ Idle13 /\ Idle15 /\ Idle16 /\ Idle19
    /\ Idle20 /\ Idle21 /\ Idle24
IdleOthers19 ==
    /\ Idle05 /\ Idle06 /\ Idle07 /\ Idle10 /\ Idle11
    /\ Idle12 /\ Idle13 /\ Idle15 /\ Idle16 /\ Idle17
    /\ Idle20 /\ Idle21 /\ Idle24
IdleOthers20 ==
    /\ Idle05 /\ Idle06 /\ Idle07 /\ Idle10 /\ Idle11
    /\ Idle12 /\ Idle13 /\ Idle15 /\ Idle16 /\ Idle17
    /\ Idle19 /\ Idle21 /\ Idle24
IdleOthers21 ==
    /\ Idle05 /\ Idle06 /\ Idle07 /\ Idle10 /\ Idle11
    /\ Idle12 /\ Idle13 /\ Idle15 /\ Idle16 /\ Idle17
    /\ Idle19 /\ Idle20 /\ Idle24
IdleOthers24 ==
    /\ Idle05 /\ Idle06 /\ Idle07 /\ Idle10 /\ Idle11
    /\ Idle12 /\ Idle13 /\ Idle15 /\ Idle16 /\ Idle17
    /\ Idle19 /\ Idle20 /\ Idle21

(***************************************************************************)
(* Helpers on sequences and sets.                                          *)
(***************************************************************************)
Range(s) == {s[i] : i \in 1..Len(s)}

Last(s) == s[Len(s)]

RECURSIVE SumSeq(_)
SumSeq(s) == IF s = <<>> THEN 0 ELSE s[1] + SumSeq(Tail(s))

RECURSIVE SumOver(_, _)
\* Sum of f[e] over the elements e of the finite set S.
SumOver(S, f) ==
    IF S = {} THEN 0
    ELSE LET e == CHOOSE x \in S : TRUE IN f[e] + SumOver(S \ {e}, f)

(***************************************************************************)
(* DAY 10 - hiking trails on a topographic map.                            *)
(* A map is a sequence of rows; a position is <<x, y>>, 0-based as in the  *)
(* source (x the row, y the column).                                       *)
(***************************************************************************)
START_POSITION == 0
FINISH_POSITION == 9

Shape(m) == <<Len(m), IF Len(m) = 0 THEN 0 ELSE Len(m[1])>>

At(m, p) == m[p[1] + 1][p[2] + 1]

Cells(m) == (0..(Shape(m)[1] - 1)) \X (0..(Shape(m)[2] - 1))

RECURSIVE FilterSeq(_, _, _, _, _)
\* The positions among cells[lo..hi] whose value in m is v, order kept.
FilterSeq(m, cells, v, lo, hi) ==
    IF lo > hi THEN <<>>
    ELSE IF lo = hi
         THEN (IF At(m, cells[lo]) = v THEN <<cells[lo]>> ELSE <<>>)
    ELSE FilterSeq(m, cells, v, lo, (lo + hi) \div 2)
         \o FilterSeq(m, cells, v, (lo + hi) \div 2 + 1, hi)

\* All positions of m in row-major order, as numpy's where lists them.
RowMajor(m) ==
    [k \in 1..(Shape(m)[1] * Shape(m)[2]) |->
        <<(k - 1) \div Shape(m)[2], (k - 1) % Shape(m)[2]>>]

_start_indexes(m) ==
    FilterSeq(m, RowMajor(m), START_POSITION, 1, Len(RowMajor(m)))

\* The candidate offsets in the order of the two nested loops, the centre
\* and the diagonals skipped.
NeighborOffsets == << <<-1, 0>>, <<0, -1>>, <<0, 1>>, <<1, 0>> >>

RECURSIVE InBounds(_, _)
InBounds(m, cands) ==
    IF cands = <<>> THEN <<>>
    ELSE (IF cands[1] \in Cells(m) THEN <<cands[1]>> ELSE <<>>)
         \o InBounds(m, Tail(cands))

\* Mutant: the diagonal neighbours are not skipped.
_get_neighbors_diagonal(m, x, y) ==
    InBounds(m, [k \in 1..8 |->
        <<x + ((IF k <= 4 THEN k - 1 ELSE k) \div 3) - 1,
          y + ((IF k <= 4 THEN k - 1 ELSE k) % 3) - 1>>])

_get_neighbors(m, x, y) ==
    InBounds(m, [k \in 1..4 |->
        <<x + NeighborOffsets[k][1], y + NeighborOffsets[k][2]>>])

RECURSIVE _recursive_search(_, _, _, _, _)
RECURSIVE SearchNeighbors(_, _, _, _, _, _)
\* The for loop of _recursive_search over the neighbours still to try.
SearchNeighbors(m, x, y, current_position, hiking_trail, neighbors) ==
    IF neighbors = <<>> THEN <<>>
    ELSE (IF At(m, neighbors[1]) = current_position + 1
          THEN _recursive_search(m, neighbors[1][1], neighbors[1][2],
                                 current_position + 1,
                                 hiking_trail \o << <<x, y>> >>)
          ELSE <<>>)
         \o SearchNeighbors(m, x, y, current_position, hiking_trail,
                            Tail(neighbors))

_recursive_search(m, x, y, current_position, hiking_trail) ==
    IF At(m, <<x, y>>) = FINISH_POSITION
    THEN hiking_trail \o << <<x, y>> >>
    ELSE SearchNeighbors(m, x, y, current_position, hiking_trail,
                         _get_neighbors(m, x, y))

\* The body of the for loop of _split_hiking_routes; acc is the pair
\* <<split_routes, current_route>>.
SplitStep(acc, position, start) ==
    IF position = start /\ acc[2] # <<>>
    THEN <<Append(acc[1], acc[2]), <<position>>>>
    ELSE <<acc[1], Append(acc[2], position)>>

RECURSIVE SplitLoop(_, _, _, _, _)
\* The for loop over routes[lo..hi], left to right, from the accumulators
\* acc (the range is halved only to keep the evaluation shallow).
SplitLoop(routes, start, lo, hi, acc) ==
    IF lo > hi THEN acc
    ELSE IF lo = hi THEN SplitStep(acc, routes[lo], start)
    ELSE LET left == SplitLoop(routes, start, lo, (lo + hi) \div 2, acc)
         IN  IF Len(left) = 2   \* always: the left half is computed first
             THEN SplitLoop(routes, start, (lo + hi) \div 2 + 1, hi, left)
             ELSE left

_split_hiking_routes(routes, x, y) ==
    LET acc == SplitLoop(routes, <<x, y>>, 1, Len(routes), <<<<>>, <<>>>>)
    IN  IF acc[2] # <<>> THEN Append(acc[1], acc[2]) ELSE acc[1]

\* Mutant: a route is identified by its last cell alone.
routes_uniques_by_end(d) ==
    UNION {{Last(d[t][i]) : i \in 1..Len(d[t])} : t \in DOMAIN d}

\* first_exercise's set comprehension over dict_routes.values().
routes_uniques(d) ==
    UNION {{<<d[t][i][1], Last(d[t][i])>> : i \in 1..Len(d[t])} : t \in DOMAIN d}

\* second_exercise's sum of len(routes) over dict_routes.values().
routes_total(d) == SumOver(DOMAIN d, [t \in DOMAIN d |-> Len(d[t])])

(* Inputs of day 10: a few base maps, each with at most MaxChanged10 cells  *)
(* overwritten by an arbitrary height, and the example map as it is.        *)
MaxChanged10 == 1

Heights == 0..9

BaseMaps10 ==
    { << <<0, 1, 2, 3>>,
         <<9, 8, 5, 4>>,
         <<0, 7, 6, 5>>,
         <<9, 8, 7, 6>> >>,
      << <<9, 8, 7, 6, 5>>,
         <<0, 1, 2, 3, 4>>,
         <<9, 8, 7, 6, 5>> >> }

Example10 ==
    << <<8, 9, 0, 1, 0, 1, 2, 3>>,
       <<7, 8, 1, 2, 1, 8, 7, 4>>,
       <<8, 7, 4, 3, 0, 9, 6, 5>>,
       <<9, 6, 5, 4, 9, 8, 7, 4>>,
       <<4, 5, 6, 7, 8, 9, 0, 3>>,
       <<3, 2, 0, 1, 9, 0, 1, 2>>,
       <<0, 1, 3, 2, 9, 8, 0, 1>>,
       <<1, 0, 4, 5, 6, 7, 3, 2>> >>

SetCell(m, p, h) == [m EXCEPT ![p[1] + 1][p[2] + 1] = h]

RECURSIVE Changed(_, _)
Changed(m, k) ==
    IF k = 0 THEN {m}
    ELSE LET prev == Changed(m, k - 1)
         IN  prev \cup UNION {{SetCell(n, p, h) : p \in Cells(m), h \in Heights}
                              : n \in prev}

Inputs10 == UNION {Changed(b, MaxChanged10) : b \in BaseMaps10} \cup {Example10}

Init10 ==
    /\ topographic_map \in Inputs10
    /\ exercise \in {"first", "second"}
    /\ dict_routes = <<>>
    /\ start_index = 1
    /\ pc = "starts"
    /\ result = None
    /\ IdleOthers10

\* One pass of the loop over _start_indexes shared by both exercises: the
\* flat list of _recursive_search is split and stored under the trailhead.
SearchTrailhead ==
    /\ pc = "starts"
    /\ start_index <= Len(_start_indexes(topographic_map))
    /\ LET t == _start_indexes(topographic_map)[start_index]
           routes == _split_hiking_routes(
                         _recursive_search(topographic_map, t[1], t[2],
                                           START_POSITION, <<>>),
                         t[1], t[2])
       IN  dict_routes' = [u \in DOMAIN dict_routes \cup {t} |->
                              IF u = t THEN routes ELSE dict_routes[u]]
    /\ start_index' = start_index + 1
    /\ UNCHANGED <<pc, exercise, result, topographic_map, others10>>

FirstExercise10Return ==
    /\ pc = "starts"
    /\ exercise = "first"
    /\ start_index > Len(_start_indexes(topographic_map))
    /\ result' = Cardinality(routes_uniques(dict_routes))
    /\ pc' = "done"
    /\ UNCHANGED <<exercise, vars10, others10>>

SecondExercise10Return ==
    /\ pc = "starts"
    /\ exercise = "second"
    /\ start_index > Len(_start_indexes(topographic_map))
    /\ result' = routes_total(dict_routes)
    /\ pc' = "done"
    /\ UNCHANGED <<exercise, vars10, others10>>

Next10 == SearchTrailhead \/ FirstExercise10Return \/ SecondExercise10Return

Spec10 == Init10 /\ [][Next10]_vars

(***************************************************************************)
(* Day 10, what the two exercises are to compute, stated on the map alone. *)
(***************************************************************************)
Adjacent(p, q) ==
    \/ p[1] = q[1] /\ (p[2] - q[2] = 1 \/ q[2] - p[2] = 1)
    \/ p[2] = q[2] /\ (p[1] - q[1] = 1 \/ q[1] - p[1] = 1)

Trailheads(m) == {p \in Cells(m) : At(m, p) = 0}

\* The cells of height h next to a cell of the set below.
StepUp(m, below, h) ==
    {q : q \in {r \in Cells(m) : At(m, r) = h /\ \E p \in below : Adjacent(p, r)}}

RECURSIVE ClimbFrom(_, _, _)
\* The cells of height 9 that paths from the cells of reached (all of height
\* h) reach by steps that each climb by exactly 1.
ClimbFrom(m, reached, h) ==
    IF h = 9 THEN reached ELSE ClimbFrom(m, StepUp(m, reached, h + 1), h + 1)

NinesReached(m, t) == ClimbFrom(m, {t}, 0)

ScoreSum(m) ==
    SumOver(Trailheads(m),
            [t \in Trailheads(m) |-> Cardinality(NinesReached(m, t))])

RECURSIVE Climbs(_, _)
\* The set of all sequences of n adjacent cells with heights 0, 1, ..., n-1.
Climbs(m, n) ==
    IF n = 1 THEN {<<t>> : t \in Trailheads(m)}
    ELSE UNION {{Append(c, q) : q \in {r \in Cells(m) : /\ At(m, r) = n - 1
                                                       /\ Adjacent(c[n - 1], r)}}
                : c \in Climbs(m, n - 1)}

Trails(m) == Climbs(m, 10)

\* C1: when first_exercise returns, its result is the sum over the
\* trailheads of the number of distinct height-9 cells reachable from the
\* trailhead by orthogonal steps that each climb by exactly 1.
C1_FirstExerciseSumsScores ==
    (pc = "done" /\ exercise = "first" /\ topographic_map # <<>>)
        => result = ScoreSum(topographic_map)

\* The example map has run through first_exercise: 81 routes were found,
\* several of them sharing their two ends, and the result is the asserted 36.
C1_Witness ==
    /\ pc = "done" /\ exercise = "first"
    /\ topographic_map = Example10
    /\ routes_total(dict_routes) = 81
    /\ result = 36

\* C2: when second_exercise returns, its result is the number of distinct
\* hiking trails of the map, and for every trailhead the pieces the flat
\* list was split into are exactly the trails that start there, each once.
C2_SecondExerciseCountsTrails ==
    (pc = "done" /\ exercise = "second" /\ topographic_map # <<>>)
        => /\ result = Cardinality(Trails(topographic_map))
           /\ DOMAIN dict_routes = Trailheads(topographic_map)
           /\ \A t \in Trailheads(topographic_map) :
                LET from == {tr \in Trails(topographic_map) : tr[1] = t}
                IN  /\ Range(dict_routes[t]) = from
                    /\ Len(dict_routes[t]) = Cardinality(from)

\* second_exercise has returned on a changed base map on which one of
\* several trailheads starts more than one trail.
C2_Witness ==
    /\ pc = "done" /\ exercise = "second"
    /\ topographic_map # Example10
    /\ Cardinality(DOMAIN dict_routes) > 1
    /\ \E t \in DOMAIN dict_routes : Len(dict_routes[t]) > 1
    /\ result > 2

(***************************************************************************)
(* DAY 19 - towel patterns.  A string is a sequence of one-letter colours. *)
(***************************************************************************)
\* sum() adds a bool as 0 or 1.
BoolToInt(b) == IF b THEN 1 ELSE 0

startswith(remaining, towel_pattern) ==
    /\ Len(towel_pattern) <= Len(remaining)
    /\ SubSeq(remaining, 1, Len(towel_pattern)) = towel_pattern

\* remaining[len(towel_pattern):]
SliceFrom(remaining, towel_pattern) ==
    SubSeq(remaining, Len(towel_pattern) + 1, Len(remaining))

RECURSIVE _can_be_designed_remaining(_, _)
RECURSIVE CanLoop(_, _, _)
\* The for loop of _can_be_designed_remaining from pattern number k on: it
\* returns True at the first pattern whose remainder can be designed.
CanLoop(patterns, remaining, k) ==
    IF k > Len(patterns) THEN FALSE
    ELSE IF /\ startswith(remaining, patterns[k])
            /\ _can_be_designed_remaining(patterns,
                                          SliceFrom(remaining, patterns[k]))
         THEN TRUE
         ELSE CanLoop(patterns, remaining, k + 1)

_can_be_designed_remaining(patterns, remaining) ==
    IF remaining = <<>> THEN TRUE ELSE CanLoop(patterns, remaining, 1)

RECURSIVE GreedyLoop(_, _, _)
\* Mutant: the first pattern that matches decides, the others are not tried.
GreedyLoop(patterns, remaining, k) ==
    IF remaining = <<>> THEN TRUE
    ELSE IF k > Len(patterns) THEN FALSE
    ELSE IF startswith(remaining, patterns[k])
         THEN GreedyLoop(patterns, SliceFrom(remaining, patterns[k]), 1)
         ELSE GreedyLoop(patterns, remaining, k + 1)

_can_be_designed_greedy(patterns, desired_design) ==
    GreedyLoop(patterns, desired_design, 1)

_can_be_designed(patterns, desired_design) ==
    _can_be_designed_remaining(patterns, desired_design)

RECURSIVE _count_ways_designed_remaining(_, _)
RECURSIVE CountLoop(_, _, _)
\* The for loop of _count_ways_designed_remaining from pattern number k on;
\* the value is what the loop adds to total_count.
CountLoop(patterns, remaining, k) ==
    IF k > Len(patterns) THEN 0
    ELSE (IF startswith(remaining, patterns[k])
          THEN _count_ways_designed_remaining(
                   patterns, SliceFrom(remaining, patterns[k]))
          ELSE 0)
         + CountLoop(patterns, remaining, k + 1)

_count_ways_designed_remaining(patterns, remaining) ==
    IF remaining = <<>> THEN 1 ELSE CountLoop(patterns, remaining, 1)

\* Mutant: a design that can be made counts as one way.
_count_ways_designed_once(patterns, desired_design) ==
    BoolToInt(_can_be_designed_remaining(patterns, desired_design))

_count_ways_designed(patterns, desired_design) ==
    _count_ways_designed_remaining(patterns, desired_design)

(* Inputs of day 19: every list of at most MaxTowels distinct patterns of   *)
(* one or two colours, and every list of one or two designs of at most      *)
(* MaxDesignLen colours.                                                    *)
MaxTowels == 2
MaxDesignLen == 3

Colours == {"r", "g"}

RECURSIVE Words(_)
\* The strings of exactly n colours.
Words(n) ==
    IF n = 0 THEN {<<>>}
    ELSE {Append(w, c) : w \in Words(n - 1), c \in Colours}

Patterns == Words(1) \cup Words(2)

Designs == UNION {Words(n) : n \in 1..MaxDesignLen}

RECURSIVE DistinctLists(_, _)
\* The lists of exactly n distinct elements of S.
DistinctLists(S, n) ==
    IF n = 0 THEN {<<>>}
    ELSE UNION {{Append(l, e) : e \in S \ Range(l)} : l \in DistinctLists(S, n - 1)}

TowelLists == UNION {DistinctLists(Patterns, n) : n \in 1..MaxTowels}

DesignLists == {<<d>> : d \in Designs} \cup {<<d, e>> : d \in Designs, e \in Designs}

\* The example input, for which main.py asserts the results 6 and 16.
Example19 ==
    [towel_patterns |->
        << <<"r">>, <<"w", "r">>, <<"b">>, <<"g">>, <<"b", "w", "u">>,
           <<"r", "b">>, <<"g", "b">>, <<"b", "r">> >>,
     desired_designs |->
        << <<"b", "r", "w", "r", "r">>, <<"b", "g", "g", "r">>,
           <<"g", "b", "b", "r">>, <<"r", "r", "b", "g", "b", "r">>,
           <<"u", "b", "w", "u">>, <<"b", "w", "u", "r", "r", "g">>,
           <<"b", "r", "g", "r">>, <<"b", "b", "r", "g", "w", "b">> >>]

Inputs19 ==
    [towel_patterns : TowelLists, desired_designs : DesignLists]
        \cup {Example19}

Init19 ==
    /\ \E input \in Inputs19 :
         /\ towel_patterns = input.towel_patterns
         /\ desired_designs = input.desired_designs
    /\ exercise \in {"first", "second"}
    /\ design_index = 1
    /\ total = 0
    /\ pc = "sum"
    /\ result = None
    /\ IdleOthers19

\* One element of first_exercise's generator is added to the sum.
AddCanBeDesigned ==
    /\ pc = "sum" /\ exercise = "first"
    /\ design_index <= Len(desired_designs)
    /\ total' = total + BoolToInt(
           _can_be_designed(towel_patterns, desired_designs[design_index]))
    /\ design_index' = design_index + 1
    /\ UNCHANGED <<pc, exercise, result, towel_patterns, desired_designs,
                   others19>>

\* One element of second_exercise's generator is added to the sum.
AddCountWays ==
    /\ pc = "sum" /\ exercise = "second"
    /\ design_index <= Len(desired_designs)
    /\ total' = total + _count_ways_designed(towel_patterns,
                                             desired_designs[design_index])
    /\ design_index' = design_index + 1
    /\ UNCHANGED <<pc, exercise, result, towel_patterns, desired_designs,
                   others19>>

Return19 ==
    /\ pc = "sum"
    /\ design_index > Len(desired_designs)
    /\ result' = total
    /\ pc' = "done"
    /\ UNCHANGED <<exercise, vars19, others19>>

Next19 == AddCanBeDesigned \/ AddCountWays \/ Return19

Spec19 == Init19 /\ [][Next19]_vars

(***************************************************************************)
(* Day 19, what the two exercises are to compute: the arrangements of a    *)
(* design, built from the front as explicit sequences of patterns.         *)
(***************************************************************************)
EndsAt(design, k, p) ==
    Len(p) <= k /\ SubSeq(design, k - Len(p) + 1, k) = p

RECURSIVE ArrangementsOfPrefix(_, _, _)
\* The set of sequences of available patterns whose concatenation is the
\* first k colours of design.
ArrangementsOfPrefix(available, design, k) ==
    IF k = 0 THEN {<<>>}
    ELSE UNION {{Append(a, p) : a \in ArrangementsOfPrefix(available, design,
                                                            k - Len(p))}
                : p \in {q \in available : EndsAt(design, k, q)}}

Arrangements(patterns, design) ==
    ArrangementsOfPrefix(Range(patterns), design, Len(design))

DesignIndexes == DOMAIN desired_designs

\* C3: when first_exercise returns, its result is the number of desired
\* designs that are a concatenation of available patterns (repeats allowed),
\* each such design counted once.
C3_FirstExerciseCountsPossibleDesigns ==
    (pc = "done" /\ exercise = "first" /\ towel_patterns # <<>>)
        => result = Cardinality({i \in DesignIndexes :
                       Arrangements(towel_patterns, desired_designs[i]) # {}})

\* first_exercise has returned 1 for two designs, one with several
\* arrangements and one with none.
C3_Witness ==
    /\ pc = "done" /\ exercise = "first" /\ towel_patterns # <<>>
    /\ Len(desired_designs) = 2
    /\ Cardinality(Arrangements(towel_patterns, desired_designs[1])) > 1
    /\ Arrangements(towel_patterns, desired_designs[2]) = {}
    /\ result = 1

\* C4: when second_exercise returns, its result is the sum over the desired
\* designs of the number of different sequences of patterns whose
\* concatenation is the design.
C4_SecondExerciseSumsArrangements ==
    (pc = "done" /\ exercise = "second" /\ towel_patterns # <<>>)
        => result = SumOver(DesignIndexes,
                       [i \in DesignIndexes |-> Cardinality(
                           Arrangements(towel_patterns, desired_designs[i]))])

\* second_exercise has returned the asserted 16 on the example input, where
\* some designs have several arrangements and two designs have none.
C4_Witness ==
    /\ pc = "done" /\ exercise = "second"
    /\ towel_patterns = Example19.towel_patterns
    /\ desired_designs = Example19.desired_designs
    /\ Cardinality(Arrangements(towel_patterns, desired_designs[4])) > 1
    /\ Arrangements(towel_patterns, desired_designs[5]) = {}
    /\ result = 16

(***************************************************************************)
(* DAY 16 - the reindeer maze.  A maze is a sequence of rows of one-letter *)
(* strings; positions are 0-based (x the row, y the column).               *)
(***************************************************************************)
START == "S"
END == "E"
EMPTY == "."
WALL == "#"

COST_STEP == 1
COST_ROTATION == 1000
START_DIRECTION == ">"

\* float("inf"): a value above every score a search can reach.
Inf == 1000000

DIRECTIONS16 == <<"<", ">", "^", "v">>

DICT_MOVEMENTS ==
    [d \in Range(DIRECTIONS16) |->
        CASE d = "<" -> <<0, -1>>
          [] d = ">" -> <<0, 1>>
          [] d = "^" -> <<-1, 0>>
          [] d = "v" -> <<1, 0>>]

TOGGLE_DIRECTION_RIGHT ==
    [d \in Range(DIRECTIONS16) |->
        CASE d = "^" -> ">" [] d = ">" -> "v" [] d = "v" -> "<" [] d = "<" -> "^"]

TOGGLE_DIRECTION_LEFT ==
    [d \in Range(DIRECTIONS16) |->
        CASE d = "^" -> "<" [] d = "<" -> "v" [] d = "v" -> ">" [] d = ">" -> "^"]

\* np.where(maze == mark), for a maze with exactly one such cell.
Where(m, mark) == CHOOSE p \in Cells(m) : At(m, p) = mark

Min2(a, b) == IF a <= b THEN a ELSE b

\* The score of the recursive call made for direction_next.
NextScore(score, direction, direction_next) ==
    score + COST_STEP + (IF direction_next # direction THEN COST_ROTATION ELSE 0)

RECURSIVE _solve_maze_best_score(_, _, _, _, _, _)
\* st is the shared mutable state the call reads and writes: the dict
\* visited_scores and the global best_global.  The value is the returned
\* score with the state the call leaves behind.
_solve_maze_best_score(m, x, y, direction, score, st) ==
    LET key == <<x, y, direction>>
        unchanged == [ret |-> Inf, visited_scores |-> st.visited_scores,
                      best_global |-> st.best_global]
    IN
    IF score >= st.best_global THEN unchanged
    ELSE IF key \in DOMAIN st.visited_scores /\ score >= st.visited_scores[key]
    THEN unchanged
    ELSE
    LET visited == [k \in DOMAIN st.visited_scores \cup {key} |->
                       IF k = key THEN score ELSE st.visited_scores[k]]
    IN
    IF At(m, <<x, y>>) = END
    THEN [ret |-> score, visited_scores |-> visited, best_global |-> score]
    ELSE IF At(m, <<x, y>>) = WALL
    THEN [ret |-> Inf, visited_scores |-> visited,
          best_global |-> st.best_global]
    ELSE
    LET left == TOGGLE_DIRECTION_LEFT[direction]
        right == TOGGLE_DIRECTION_RIGHT[direction]
        r1 == _solve_maze_best_score(
                  m, x + DICT_MOVEMENTS[left][1], y + DICT_MOVEMENTS[left][2],
                  left, NextScore(score, direction, left),
                  [visited_scores |-> visited, best_global |-> st.best_global])
        r2 == _solve_maze_best_score(
                  m, x + DICT_MOVEMENTS[direction][1],
                  y + DICT_MOVEMENTS[direction][2],
                  direction, NextScore(score, direction, direction),
                  [visited_scores |-> r1.visited_scores,
                   best_global |-> r1.best_global])
        r3 == _solve_maze_best_score(
                  m, x + DICT_MOVEMENTS[right][1], y + DICT_MOVEMENTS[right][2],
                  right, NextScore(score, direction, right),
                  [visited_scores |-> r2.visited_scores,
                   best_global |-> r2.best_global])
    IN  [ret |-> Min2(r1.ret, Min2(r2.ret, r3.ret)),
         visited_scores |-> r3.visited_scores,
         best_global |-> r3.best_global]

\* dict_cells: the cells (walls left out) with some visited score not above
\* known_best_score, each with the scores visited_scores holds for it.
DictCellsKeys(m, visited, known_best_score) ==
    {c : c \in {<<k[1], k[2]>> : k \in {j \in DOMAIN visited :
                    /\ visited[j] <= known_best_score
                    /\ At(m, <<j[1], j[2]>>) # WALL}}}

DictCellsAt(visited, cell) ==
    {visited[k] : k \in {j \in DOMAIN visited : <<j[1], j[2]>> = cell}}

\* inf - n is inf.
Minus(a, n) == IF a = Inf THEN Inf ELSE a - n

Reverse(path) == [i \in 1..Len(path) |-> path[Len(path) + 1 - i]]

RECURSIVE _find_paths(_, _, _, _, _, _)
RECURSIVE FindPathsLoop(_, _, _, _, _, _, _)
\* The for loop of _find_paths from direction number k on; the value is the
\* list of the paths the loop appends to all_paths.
FindPathsLoop(m, visited, keys, start, current_cell, current_path_score, k) ==
    IF k > Len(DIRECTIONS16) THEN <<>>
    ELSE
    LET movement == DICT_MOVEMENTS[DIRECTIONS16[k]]
        prev_cell == <<current_cell[1] - movement[1],
                       current_cell[2] - movement[2]>>
        expected_score == Minus(current_path_score[2], COST_STEP)
        expected_score_with_rotation == Minus(expected_score, COST_ROTATION)
        path == Append(current_path_score[1], prev_cell)
    IN  (IF prev_cell \in keys
         THEN (IF expected_score \in DictCellsAt(visited, prev_cell)
               THEN _find_paths(m, visited, keys, start, prev_cell,
                                <<path, expected_score>>)
               ELSE <<>>)
              \o
              (IF expected_score_with_rotation \in DictCellsAt(visited, prev_cell)
               THEN _find_paths(m, visited, keys, start, prev_cell,
                                <<path, expected_score_with_rotation>>)
               ELSE <<>>)
         ELSE <<>>)
        \o FindPathsLoop(m, visited, keys, start, current_cell,
                         current_path_score, k + 1)

\* current_path_score is the pair <<current_path, remaining_score>>.
_find_paths(m, visited, keys, start, current_cell, current_path_score) ==
    IF current_cell = start THEN <<Reverse(current_path_score[1])>>
    ELSE FindPathsLoop(m, visited, keys, start, current_cell,
                       current_path_score, 1)

_backtrack_paths(m, start, end, visited, known_best_score) ==
    _find_paths(m, visited, DictCellsKeys(m, visited, known_best_score),
                start, end, <<<<end>>, known_best_score>>)

\* len({(x, y) for path in all_seats for x, y in path})
number_of_seats(paths) ==
    Cardinality(UNION {Range(paths[i]) : i \in 1..Len(paths)})

(* Inputs of day 16: walled rooms in which S and E take any two free cells  *)
(* and at most MaxWalls16 of the other free cells are walls; at most        *)
(* MaxCalls16 calls are made one after the other.                           *)
MaxWalls16 == 1
MaxCalls16 == 2

Rooms16 ==
    { << <<"#", "#", "#", "#", "#">>,
         <<"#", ".", ".", ".", "#">>,
         <<"#", ".", ".", ".", "#">>,
         <<"#", ".", ".", ".", "#">>,
         <<"#", "#", "#", "#", "#">> >>,
      << <<"#", "#", "#", "#", "#", "#">>,
         <<"#", ".", ".", ".", ".", "#">>,
         <<"#", ".", ".", ".", ".", "#">>,
         <<"#", "#", "#", "#", "#", "#">> >> }

SetMark(m, p, mark) == [m EXCEPT ![p[1] + 1][p[2] + 1] = mark]

FreeCells(m) == {p \in Cells(m) : At(m, p) = EMPTY}

RECURSIVE Walled(_, _)
\* The mazes got from m by turning at most k free cells into walls.
Walled(m, k) ==
    IF k = 0 THEN {m}
    ELSE LET fewer == Walled(m, k - 1)
         IN  fewer \cup UNION {{SetMark(n, p, WALL) : p \in FreeCells(n)}
                               : n \in fewer}

Mazes16 ==
    UNION {UNION {Walled(SetMark(SetMark(room, s, START), e, END), MaxWalls16)
                  : <<s, e>> \in {q \in FreeCells(room) \X FreeCells(room)
                                      : q[1] # q[2]}}
           : room \in Rooms16}

Init16 ==
    /\ pc = "idle"
    /\ exercise = None
    /\ result = None
    /\ Idle16
    /\ IdleOthers16

\* wrapper, line 202: the call of a decorated exercise resets best_global.
WrapperEntryValue == Inf

WrapperExitKeeps == best_global

\* wrapper, line 204: best_global is reset after the exercise has returned.
WrapperExitValue == Inf

\* A call of first_exercise or second_exercise on any maze enters the
\* wrapper and reads the file.
Call16 ==
    /\ pc = "idle"
    /\ calls < MaxCalls16
    /\ calls' = calls + 1
    /\ exercise' \in {"first", "second"}
    /\ maze' \in Mazes16
    /\ best_global' = WrapperEntryValue
    /\ visited_scores' = <<>>
    /\ best_score' = None
    /\ all_seats' = <<>>
    /\ pc' = "search"
    /\ UNCHANGED <<result, others16>>

\* The whole recursive search from S, facing START_DIRECTION, score 0.
Solve16 ==
    /\ pc = "search"
    /\ LET start == Where(maze, START)
           r == _solve_maze_best_score(
                    maze, start[1], start[2], START_DIRECTION, 0,
                    [visited_scores |-> <<>>, best_global |-> best_global])
       IN  /\ best_score' = r.ret
           /\ visited_scores' = r.visited_scores
           /\ best_global' = r.best_global
    /\ pc' = "solved"
    /\ UNCHANGED <<exercise, result, maze, all_seats, calls, others16>>

FirstExercise16Return ==
    /\ pc = "solved" /\ exercise = "first"
    /\ result' = best_score
    /\ best_global' = WrapperExitValue
    /\ pc' = "returned"
    /\ UNCHANGED <<exercise, maze, visited_scores, best_score, all_seats,
                   calls, others16>>

SecondExercise16Return ==
    /\ pc = "solved" /\ exercise = "second"
    /\ all_seats' = _backtrack_paths(maze, Where(maze, START),
                                     Where(maze, END), visited_scores,
                                     best_score)
    /\ result' = number_of_seats(all_seats')
    /\ best_global' = WrapperExitValue
    /\ pc' = "returned"
    /\ UNCHANGED <<exercise, maze, visited_scores, best_score, calls, others16>>

\* The caller has taken the result; the locals of the call are gone and
\* only the global outlives it.
Discard16 ==
    /\ pc = "returned"
    /\ pc' = "idle"
    /\ exercise' = None
    /\ maze' = <<>>
    /\ visited_scores' = <<>>
    /\ best_score' = None
    /\ all_seats' = <<>>
    /\ UNCHANGED <<result, best_global, calls, others16>>

Next16 ==
    \/ Call16 \/ Solve16 \/ FirstExercise16Return \/ SecondExercise16Return
    \/ Discard16

Spec16 == Init16 /\ [][Next16]_vars

(***************************************************************************)
(* Day 16, what the exercises are to compute: the reindeer stands on a     *)
(* free cell facing a direction; it may step forward onto a cell that is   *)
(* no wall (1 point) or rotate by 90 degrees on the spot (1000 points).    *)
(***************************************************************************)
OpenCells(m) == {p \in Cells(m) : At(m, p) # WALL}

Poses(m) == OpenCells(m) \X Range(DIRECTIONS16)

Plus(a, n) == IF a = Inf THEN Inf ELSE a + n

Moved(cell, d, n) ==
    <<cell[1] + n * DICT_MOVEMENTS[d][1], cell[2] + n * DICT_MOVEMENTS[d][2]>>

\* One round of relaxation of the scores from S: a pose is entered by a
\* step from the cell behind it or by a rotation on its own cell.
RelaxFromStart(m, dist) ==
    [pose \in Poses(m) |->
        LET cell == pose[1]
            d == pose[2]
            behind == Moved(cell, d, -1)
        IN  Min2(dist[pose],
            Min2(Plus(dist[<<cell, TOGGLE_DIRECTION_LEFT[d]>>], COST_ROTATION),
            Min2(Plus(dist[<<cell, TOGGLE_DIRECTION_RIGHT[d]>>], COST_ROTATION),
                 IF behind \in OpenCells(m)
                 THEN Plus(dist[<<behind, d>>], COST_STEP) ELSE Inf)))]

\* One round of relaxation of the scores still needed to stand on E.
RelaxToEnd(m, dist) ==
    [pose \in Poses(m) |->
        LET cell == pose[1]
            d == pose[2]
            ahead == Moved(cell, d, 1)
        IN  Min2(dist[pose],
            Min2(Plus(dist[<<cell, TOGGLE_DIRECTION_LEFT[d]>>], COST_ROTATION),
            Min2(Plus(dist[<<cell, TOGGLE_DIRECTION_RIGHT[d]>>], COST_ROTATION),
                 IF ahead \in OpenCells(m)
                 THEN Plus(dist[<<ahead, d>>], COST_STEP) ELSE Inf)))]

RECURSIVE FixFromStart(_, _)
FixFromStart(m, dist) ==
    LET next == RelaxFromStart(m, dist)
    IN  IF next = dist THEN dist ELSE FixFromStart(m, next)

RECURSIVE FixToEnd(_, _)
FixToEnd(m, dist) ==
    LET next == RelaxToEnd(m, dist)
    IN  IF next = dist THEN dist ELSE FixToEnd(m, next)

\* The least score of a route from S, facing east, to each pose.
ScoreFromStart(m) ==
    FixFromStart(m, [pose \in Poses(m) |->
        IF pose = <<Where(m, START), START_DIRECTION>> THEN 0 ELSE Inf])

\* The least score of a route from each pose to E.
ScoreToEnd(m) ==
    FixToEnd(m, [pose \in Poses(m) |->
        IF pose[1] = Where(m, END) THEN 0 ELSE Inf])

MinOverDirections(dist, cell) ==
    Min2(Min2(dist[<<cell, "<">>], dist[<<cell, ">">>]),
         Min2(dist[<<cell, "^">>], dist[<<cell, "v">>]))

\* The best score of the maze; Inf when E cannot be reached.
BestScore(m) == MinOverDirections(ScoreFromStart(m), Where(m, END))

\* The cells that lie on at least one route of the best score.
BestRouteCells(m) ==
    LET from == ScoreFromStart(m)
        to == ScoreToEnd(m)
        best == MinOverDirections(from, Where(m, END))
    IN  IF best = Inf THEN {}
        ELSE {cell \in OpenCells(m) :
                \E d \in Range(DIRECTIONS16) :
                    /\ from[<<cell, d>>] # Inf /\ to[<<cell, d>>] # Inf
                    /\ from[<<cell, d>>] + to[<<cell, d>>] = best}

\* The cell west of S is a wall, as in the puzzle's mazes.
StartBacksOntoWall(m) == At(m, Moved(Where(m, START), "<", 1)) = WALL

\* C5: when first_exercise returns, its result is the best score to reach E
\* from S starting facing east (1 per step forward, 1000 per rotation by 90
\* degrees).
C5_FirstExerciseReturnsBestScore ==
    (pc = "returned" /\ exercise = "first") => result = BestScore(maze)

\* The part of C5 the code keeps: the same, for the mazes whose S has a wall
\* to its west.
C5_BestScoreWhenStartBacksOntoWall ==
    (pc = "returned" /\ exercise = "first" /\ StartBacksOntoWall(maze))
        => result = BestScore(maze)

\* C6: when second_exercise returns, its result is the number of distinct
\* cells that lie on at least one route from S to E of the best score, and
\* the cells of the returned paths are exactly those cells.
C6_SecondExerciseCountsBestRouteCells ==
    (pc = "returned" /\ exercise = "second")
        => /\ result = Cardinality(BestRouteCells(maze))
           /\ UNION {Range(all_seats[i]) : i \in 1..Len(all_seats)}
                  = BestRouteCells(maze)

\* What a call returns when nothing was called before it: the search
\* starts from best_global = inf.
FreshSearch(m) ==
    _solve_maze_best_score(m, Where(m, START)[1], Where(m, START)[2],
                           START_DIRECTION, 0,
                           [visited_scores |-> <<>>, best_global |-> Inf])

FreshResult(ex, m) ==
    IF ex = "first" THEN FreshSearch(m).ret
    ELSE number_of_seats(
             _backtrack_paths(m, Where(m, START), Where(m, END),
                              FreshSearch(m).visited_scores, FreshSearch(m).ret))

\* C7: every call starts its search with best_global = inf and leaves it
\* = inf, and the value it returns is the value the same call returns when
\* no call was made before it.
C7_NoStateSharedAcrossCalls ==
    /\ pc = "search" => best_global = Inf
    /\ (pc \in {"returned", "idle"} /\ calls > 0) => best_global = Inf
    /\ pc = "returned" => result = FreshResult(exercise, maze)

\* A second call is searching: the call before it returned a score (kept
\* by the caller) and the search of this call has lowered best_global to a
\* larger score.
C7_Witness ==
    /\ calls = 2 /\ pc = "solved" /\ exercise = "first"
    /\ result >= COST_ROTATION /\ result < best_score
    /\ best_global = best_score /\ best_score < Inf

(***************************************************************************)
(* Day 06: the guard's walk.  The map is the padded array of               *)
(* _read_and_process_file: 0 is a free cell, 1 the guard's start, NaN an   *)
(* obstacle and -1 the border np.pad adds; positions are 0-based in the    *)
(* padded array.  The walk is modelled one iteration of its while loop at  *)
(* a time, since the loop is not bounded by the code.                      *)
(***************************************************************************)
\* np.nan stands for an obstacle; the code tests it only with np.isnan, and
\* it is equal to none of the numbers 0, 1 and -1 of the other cells.
NaN == 2
BORDER == -1

isnan(v) == v = NaN

MAP_DIRECTIONS ==
    [d \in {"^", ">", "v", "<"} |->
        CASE d = "^" -> <<-1, 0>>
          [] d = ">" -> <<0, 1>>
          [] d = "v" -> <<1, 0>>
          [] d = "<" -> <<0, -1>>]

TOGGLE_DIRECTION ==
    [d \in {"^", ">", "v", "<"} |->
        CASE d = "^" -> ">" [] d = ">" -> "v" [] d = "v" -> "<" [] d = "<" -> "^"]

\* The number a character of the file becomes: "." -> 0, "^" -> 1, "#" -> NaN.
CharToNumber(char) ==
    IF char = "#" THEN NaN ELSE IF char = "." THEN 0 ELSE 1

\* np.pad(map_matrix, pad_width=1, constant_values=-1)
Pad(m) ==
    LET border_row == [j \in 1..(Len(m[1]) + 2) |-> BORDER]
    IN  <<border_row>>
        \o [i \in 1..Len(m) |-> <<BORDER>> \o m[i] \o <<BORDER>>]
        \o <<border_row>>

\* rows is the text of the file as a sequence of rows of characters.
_read_and_process_file(rows) ==
    Pad([i \in 1..Len(rows) |->
            [j \in 1..Len(rows[i]) |-> CharToNumber(rows[i][j])]])

\* position + MAP_DIRECTIONS[direction]
PositionFront(p, d) ==
    <<p[1] + MAP_DIRECTIONS[d][1], p[2] + MAP_DIRECTIONS[d][2]>>

\* dict_distinct_positions[tuple(position)] = 1: a new key goes last.
Record(keys, p) == IF p \in Range(keys) THEN keys ELSE Append(keys, p)

LoopKeyPositionOnly(p, d) == <<p, "^">>

\* loop_key = (tuple(position), direction)
LoopKey(p, d) == <<p, d>>

(* Inputs of day 06: every map of 3 x 4 characters with one guard and at   *)
(* most MaxObstacles06 obstacles, and the example of the puzzle, on which  *)
(* main.py asserts 41 and 6.                                               *)
MaxObstacles06 == 4

Blank06 ==
    << <<".", ".", ".", ".">>,
       <<".", ".", ".", ".">>,
       <<".", ".", ".", ".">> >>

Example06 ==
    << <<".", ".", ".", ".", "#", ".", ".", ".", ".", ".">>,
       <<".", ".", ".", ".", ".", ".", ".", ".", ".", "#">>,
       <<".", ".", ".", ".", ".", ".", ".", ".", ".", ".">>,
       <<".", ".", "#", ".", ".", ".", ".", ".", ".", ".">>,
       <<".", ".", ".", ".", ".", ".", ".", "#", ".", ".">>,
       <<".", ".", ".", ".", ".", ".", ".", ".", ".", ".">>,
       <<".", "#", ".", ".", "^", ".", ".", ".", ".", ".">>,
       <<".", ".", ".", ".", ".", ".", ".", ".", "#", ".">>,
       <<"#", ".", ".", ".", ".", ".", ".", ".", ".", ".">>,
       <<".", ".", ".", ".", ".", ".", "#", ".", ".", ".">> >>

Inputs06 ==
    {Example06}
    \cup UNION {Walled(SetMark(Blank06, g, "^"), MaxObstacles06)
                : g \in Cells(Blank06)}

\* The state when the while loop of _compute_distinct_positions is first
\* reached: the file is read and the locals of lines 75-78 are set.
Init06 ==
    /\ pc = "walk"
    /\ exercise \in {"first", "second"}
    /\ result = 0
    /\ \E rows \in Inputs06 : map_positions = _read_and_process_file(rows)
    /\ guard_position = Where(map_positions, 1)
    /\ guard_direction = "^"
    /\ dict_distinct_positions = <<>>
    /\ visited_index = 0
    /\ n_obstructions = 0
    /\ map_positions_temp = <<>>
    /\ dict_distinct_positions_and_directions = {}
    /\ IdleOthers06

\* One iteration of the while loop of _compute_distinct_positions.
WalkStep ==
    /\ pc = "walk"
    /\ At(map_positions, guard_position) # BORDER
    /\ dict_distinct_positions' = Record(dict_distinct_positions, guard_position)
    /\ LET position_front == PositionFront(guard_position, guard_direction)
       IN  IF isnan(At(map_positions, position_front))
           THEN /\ guard_direction' = TOGGLE_DIRECTION[guard_direction]
                /\ UNCHANGED guard_position
           ELSE /\ guard_position' = position_front
                /\ UNCHANGED guard_direction
    /\ UNCHANGED <<pc, exercise, result, map_positions, visited_index,
                   n_obstructions, map_positions_temp,
                   dict_distinct_positions_and_directions, others06>>

\* The while loop ends on the border; first_exercise returns the sum of
\* the values of the dict, which are all 1.
FirstExercise06Return ==
    /\ pc = "walk"
    /\ exercise = "first"
    /\ At(map_positions, guard_position) = BORDER
    /\ result' = Len(dict_distinct_positions)
    /\ pc' = "returned"
    /\ UNCHANGED <<exercise, vars06, others06>>

\* The while loop ends on the border; second_exercise sets up its for loop
\* over the keys of the dict.
SecondExercise06Visited ==
    /\ pc = "walk"
    /\ exercise = "second"
    /\ At(map_positions, guard_position) = BORDER
    /\ visited_index' = 1
    /\ n_obstructions' = 0
    /\ pc' = "for"
    /\ UNCHANGED <<exercise, result, map_positions, guard_position,
                   guard_direction, dict_distinct_positions,
                   map_positions_temp,
                   dict_distinct_positions_and_directions, others06>>

\* The head of an iteration of the for loop, up to the while True.
ForVisitedPosition ==
    /\ pc = "for"
    /\ visited_index <= Len(dict_distinct_positions)
    /\ guard_position' = Where(map_positions, 1)
    /\ guard_direction' = "^"
    /\ dict_distinct_positions_and_directions' = {}
    /\ LET ij == dict_distinct_positions[visited_index]
       IN  IF At(map_positions, ij) = 1
           THEN /\ map_positions_temp' = map_positions
                /\ visited_index' = visited_index + 1
                /\ pc' = "for"
           ELSE /\ map_positions_temp' = SetMark(map_positions, ij, NaN)
                /\ UNCHANGED visited_index
                /\ pc' = "simulate"
    /\ UNCHANGED <<exercise, result, map_positions, dict_distinct_positions,
                   n_obstructions, others06>>

\* One iteration of the while True of second_exercise.
SimulateStep ==
    /\ pc = "simulate"
    /\ LET loop_key == LoopKey(guard_position, guard_direction)
           position_front == PositionFront(guard_position, guard_direction)
       IN  IF loop_key \in dict_distinct_positions_and_directions
           THEN /\ n_obstructions' = n_obstructions + 1
                /\ visited_index' = visited_index + 1
                /\ pc' = "for"
                /\ UNCHANGED <<guard_position, guard_direction,
                               dict_distinct_positions_and_directions>>
           ELSE /\ dict_distinct_positions_and_directions' =
                       dict_distinct_positions_and_directions \cup {loop_key}
                /\ IF isnan(At(map_positions_temp, position_front))
                   THEN /\ guard_direction' = TOGGLE_DIRECTION[guard_direction]
                        /\ UNCHANGED guard_position
                   ELSE /\ guard_position' = position_front
                        /\ UNCHANGED guard_direction
                /\ IF At(map_positions_temp, guard_position') = BORDER
                   THEN visited_index' = visited_index + 1 /\ pc' = "for"
                   ELSE UNCHANGED visited_index /\ pc' = "simulate"
                /\ UNCHANGED n_obstructions
    /\ UNCHANGED <<exercise, result, map_positions, dict_distinct_positions,
                   map_positions_temp, others06>>

\* The for loop is exhausted.
SecondExercise06Return ==
    /\ pc = "for"
    /\ visited_index > Len(dict_distinct_positions)
    /\ result' = n_obstructions
    /\ pc' = "returned"
    /\ UNCHANGED <<exercise, vars06, others06>>

Next06 ==
    \/ WalkStep
    \/ FirstExercise06Return
    \/ SecondExercise06Visited
    \/ ForVisitedPosition
    \/ SimulateStep
    \/ SecondExercise06Return

\* The interpreter runs one thread and always takes the next step.
Spec06 == Init06 /\ [][Next06]_vars /\ WF_vars(Next06)

(***************************************************************************)
(* Day 06, reference: the guard's walk as a function on poses.  A pose is  *)
(* <<position, direction>>; a pose on the border stays where it is.        *)
(***************************************************************************)
Clockwise == <<"^", ">", "v", "<">>

RightOf(d) ==
    LET i == CHOOSE k \in 1..4 : Clockwise[k] = d IN Clockwise[(i % 4) + 1]

Ahead(p, d) ==
    CASE d = "^" -> <<p[1] - 1, p[2]>>
      [] d = ">" -> <<p[1], p[2] + 1>>
      [] d = "v" -> <<p[1] + 1, p[2]>>
      [] d = "<" -> <<p[1], p[2] - 1>>

GuardStep(m) ==
    [pose \in Cells(m) \X Range(Clockwise) |->
        IF At(m, pose[1]) = BORDER THEN pose
        ELSE IF At(m, Ahead(pose[1], pose[2])) = NaN
             THEN <<pose[1], RightOf(pose[2])>>
             ELSE <<Ahead(pose[1], pose[2]), pose[2]>>]

RECURSIVE Iterated(_, _, _)
\* f composed with itself until it makes at least need steps.
Iterated(f, steps, need) ==
    IF steps >= need THEN f
    ELSE Iterated([x \in DOMAIN f |-> f[f[x]]], 2 * steps, need)

\* The guard of m is still inside the map after as many steps as there are
\* poses: some pose was repeated, so the walk never leaves.
NeverLeaves(m) ==
    LET far == Iterated(GuardStep(m), 1, 4 * Cardinality(Cells(m)))
    IN  At(m, far[<<Where(m, 1), "^">>][1]) # BORDER

\* The cells of the whole map, neither the start nor an obstacle, at which
\* one new obstacle makes the walk never leave.
LoopingObstructions(m) ==
    {c \in Cells(m) : At(m, c) = 0 /\ NeverLeaves(SetMark(m, c, NaN))}

(***************************************************************************)
(* Day 06, claims.                                                         *)
(***************************************************************************)
\* C8: first_exercise runs to completion on every map with one guard: the
\* walk eventually steps onto the border and the exercise returns.
C8_FirstExerciseRunsToCompletion ==
    (exercise = "first") ~> (pc = "returned")

\* C9: second_exercise returns the number of cells of the whole map, other
\* than the start and the obstacles, at which one new obstacle makes the
\* guard's walk never leave the map; and every simulated walk ends.
C9_SecondExerciseCountsLoopingObstructions ==
    /\ []((pc = "returned" /\ exercise = "second")
            => result = Cardinality(LoopingObstructions(map_positions)))
    /\ ((pc = "simulate") ~> (pc = "for"))

\* second_exercise has returned 6 on the example.
C9_Witness ==
    /\ pc = "returned" /\ exercise = "second"
    /\ map_positions = _read_and_process_file(Example06)
    /\ result = 6 /\ n_obstructions = 6

(***************************************************************************)
(* Day 07: the equations.  An Equation is a record with the fields result  *)
(* and numbers; the numbers of the inputs are not negative.  The variable  *)
(* result is the local result of _solve_equations, which it returns.       *)
(***************************************************************************)
RECURSIVE StrLen(_)
\* len(str(n)) for n >= 0
StrLen(n) == IF n < 10 THEN 1 ELSE 1 + StrLen(n \div 10)

RECURSIVE Pow10(_)
Pow10(k) == IF k = 0 THEN 1 ELSE 10 * Pow10(k - 1)

\* int(operator.concat(str(left_number), str(right_number)))
IntConcat(left_number, right_number) ==
    left_number * Pow10(StrLen(right_number)) + right_number

\* Lines 101-110: MAP_OPERATORS[operator_key] applied, on strings for key 2.
MAP_OPERATORS(operator_key, left_number, right_number) ==
    IF operator_key # 2
    THEN (IF operator_key = 0 THEN left_number + right_number
          ELSE left_number * right_number)
    ELSE IntConcat(left_number, right_number)

RECURSIVE Product(_, _)
\* list(it.product(ops, repeat=repeat)), in the order product yields.
Product(ops, repeat) ==
    IF repeat = 0 THEN << <<>> >>
    ELSE LET rest == Product(ops, repeat - 1)
         IN  [n \in 1..(Len(ops) * Len(rest)) |->
                <<ops[((n - 1) \div Len(rest)) + 1]>>
                \o rest[((n - 1) % Len(rest)) + 1]]

\* equation.numbers in dict_equations_solved[equation.result]
InSolved(solved, equation) ==
    /\ equation.result \in DOMAIN solved
    /\ equation.numbers \in Range(solved[equation.result])

\* dict_equations_solved[equation.result].append(equation.numbers)
AppendSolved(solved, equation) ==
    IF equation.result \in DOMAIN solved
    THEN [solved EXCEPT ![equation.result] = Append(@, equation.numbers)]
    ELSE (equation.result :> <<equation.numbers>>) @@ solved

RECURSIVE OperationsLoop(_, _, _, _)
\* The loop over enumerate(operations) from index on, for an equation that
\* is not in dict_equations_solved; the value is the final operation_result.
OperationsLoop(equation, operator_combination, index, operation_result) ==
    IF index >= Len(operator_combination) THEN operation_result
    ELSE LET left_number == IF index = 0 THEN equation.numbers[index + 1]
                            ELSE operation_result
             right_number == equation.numbers[index + 2]
             operator_key == operator_combination[index + 1]
             next_result ==
                 MAP_OPERATORS(operator_key, left_number, right_number)
         IN  IF next_result > equation.result THEN next_result
             ELSE OperationsLoop(equation, operator_combination, index + 1,
                                 next_result)

\* operation_result after the inner loop: every iteration is skipped once
\* the equation is in dict_equations_solved.
OperationResult(equation, operator_combination, solved) ==
    IF InSolved(solved, equation) THEN 0
    ELSE OperationsLoop(equation, operator_combination, 0, 0)

RECURSIVE CombinationsLoop(_, _, _, _)
\* The loop over operator_combinations from number k on; st holds the
\* locals result and dict_equations_solved.
CombinationsLoop(equation, operator_combinations, k, st) ==
    IF k > Len(operator_combinations) THEN st
    ELSE LET operation_result ==
                 OperationResult(equation, operator_combinations[k],
                                 st.dict_equations_solved)
             after ==
                 IF equation.result = operation_result
                 THEN [result |-> st.result + equation.result,
                       dict_equations_solved |->
                           AppendSolved(st.dict_equations_solved, equation)]
                 ELSE st
         IN  CombinationsLoop(equation, operator_combinations, k + 1, after)

(* Inputs of day 07: lists of at most MaxEquations07 equations, each with  *)
(* 1 to MaxNumbers07 numbers out of Numbers07 and a target up to           *)
(* MaxTarget07; and the example of the puzzle, on which main.py asserts    *)
(* 3749 and 11387.                                                         *)
MaxEquations07 == 2
MaxNumbers07 == 3
MaxTarget07 == 12
Numbers07 == {0, 1, 2}

Equation(target, numbers) == [result |-> target, numbers |-> numbers]

Equations07 ==
    {Equation(t, ns) :
        t \in 0..MaxTarget07,
        ns \in UNION {[1..n -> Numbers07] : n \in 1..MaxNumbers07}}

Example07 ==
    << Equation(190, <<10, 19>>),
       Equation(3267, <<81, 40, 27>>),
       Equation(83, <<17, 5>>),
       Equation(156, <<15, 6>>),
       Equation(7290, <<6, 8, 6, 15>>),
       Equation(161011, <<16, 10, 13>>),
       Equation(192, <<17, 8, 14>>),
       Equation(21037, <<9, 7, 18, 13>>),
       Equation(292, <<11, 6, 16, 20>>) >>

Inputs07 ==
    {Example07}
    \cup UNION {[1..n -> Equations07] : n \in 1..MaxEquations07}

\* The state when the for loop of _solve_equations is first reached.
Init07 ==
    /\ pc = "for"
    /\ exercise \in {"first", "second"}
    /\ operators = IF exercise = "first" THEN <<0, 1>> ELSE <<0, 1, 2>>
    /\ equations \in Inputs07
    /\ equation_index = 1
    /\ dict_equations_solved = <<>>
    /\ result = 0
    /\ IdleOthers07

\* One iteration of the for loop over equations.
SolveEquation ==
    /\ pc = "for"
    /\ equation_index <= Len(equations)
    /\ LET equation == equations[equation_index]
           operator_combinations ==
               Product(operators, Len(equation.numbers) - 1)
           st == CombinationsLoop(
                     equation, operator_combinations, 1,
                     [result |-> result,
                      dict_equations_solved |-> dict_equations_solved])
       IN  /\ result' = st.result
           /\ dict_equations_solved' = st.dict_equations_solved
    /\ equation_index' = equation_index + 1
    /\ UNCHANGED <<pc, exercise, equations, operators, others07>>

\* The for loop is exhausted: return result.
Return07 ==
    /\ pc = "for"
    /\ equation_index > Len(equations)
    /\ pc' = "returned"
    /\ UNCHANGED <<exercise, result, vars07, others07>>

Next07 == SolveEquation \/ Return07

Spec07 == Init07 /\ [][Next07]_vars

(***************************************************************************)
(* Day 07, reference: the values the numbers of an equation can produce    *)
(* with the permitted operators, evaluated left to right.                  *)
(***************************************************************************)
\* The decimal digits of left followed by the decimal digits of right.
Joined(left, right) ==
    LET shift == CHOOSE t \in {10, 100, 1000, 10000, 100000, 1000000} :
                     /\ right < t
                     /\ t = 10 \/ right >= t \div 10
    IN  left * shift + right

Operated(key, left, right) ==
    CASE key = 0 -> left + right
      [] key = 1 -> left * right
      [] key = 2 -> Joined(left, right)

RECURSIVE Producible(_, _, _)
\* The values of the first k numbers under every assignment of operators.
Producible(numbers, ops, k) ==
    IF k = 1 THEN {numbers[1]}
    ELSE {v : v \in {Operated(key, left, numbers[k]) :
                        key \in Range(ops),
                        left \in Producible(numbers, ops, k - 1)}}

CanBeTrue(equation, ops) ==
    equation.result \in Producible(equation.numbers, ops, Len(equation.numbers))

SumOfSolved(eqs, ops) ==
    SumOver({i \in 1..Len(eqs) : CanBeTrue(eqs[i], ops)},
            [i \in 1..Len(eqs) |-> eqs[i].result])

\* The list has no equation twice, every equation has at least two numbers
\* and no number is 0.
DistinctPositivePairs(eqs) ==
    /\ \A i, j \in 1..Len(eqs) : eqs[i] = eqs[j] => i = j
    /\ \A i \in 1..Len(eqs) :
          /\ Len(eqs[i].numbers) >= 2
          /\ \A n \in 1..Len(eqs[i].numbers) : eqs[i].numbers[n] >= 1

(***************************************************************************)
(* Day 07, claims.                                                         *)
(***************************************************************************)
\* C10: _solve_equations returns the sum of the targets of the equations of
\* the list that some assignment of the permitted operators makes true,
\* each such equation once and every other equation nothing.
C10_SolveEquationsSumsSolvedEquations ==
    pc = "returned" => result = SumOfSolved(equations, operators)

\* C10 on the lists with no equation twice, at least two numbers in every
\* equation and no number 0.
C10_SumOfSolvedWhenDistinctPositivePairs ==
    (pc = "returned" /\ DistinctPositivePairs(equations))
        => result = SumOfSolved(equations, operators)

\* C10 on the lists in which every equation has at least two numbers and no
\* number is 0, an equation possibly being in the list twice.
C10_SumOfSolvedWhenPositivePairs ==
    (pc = "returned" /\ \A i \in 1..Len(equations) :
          /\ Len(equations[i].numbers) >= 2
          /\ \A n \in 1..Len(equations[i].numbers) : equations[i].numbers[n] >= 1)
        => result = SumOfSolved(equations, operators)

\* _solve_equations has returned on the example: 3749 with the operators
\* of first_exercise, 11387 with those of second_exercise.
Example07Returned ==
    /\ pc = "returned" /\ equations = Example07
    /\ result = IF exercise = "first" THEN 3749 ELSE 11387

(***************************************************************************)
(* Day 11: the stones.  A stone is a str of decimal digits, modelled as    *)
(* the sequence of its digits; a Counter is a function from the stones it  *)
(* holds to their counts.  Python's int has no bound, so the product by    *)
(* 2024 is computed on the digits.                                         *)
(***************************************************************************)
RECURSIVE StripZeros(_)
\* str(int(s)): the leading zeros go, one digit at least stays.
StripZeros(s) ==
    IF Len(s) > 1 /\ s[1] = 0 THEN StripZeros(Tail(s)) ELSE s

RECURSIVE ToDigits(_)
\* str(n) for n >= 0
ToDigits(n) == IF n < 10 THEN <<n>> ELSE Append(ToDigits(n \div 10), n % 10)

RECURSIVE TimesLoop(_, _, _, _)
\* The digits of s[1..i] * factor + carry, followed by acc.
TimesLoop(s, factor, i, st) ==
    IF i = 0 THEN (IF st.carry = 0 THEN st.acc ELSE ToDigits(st.carry) \o st.acc)
    ELSE LET v == s[i] * factor + st.carry
         IN  TimesLoop(s, factor, i - 1,
                       [carry |-> v \div 10, acc |-> <<v % 10>> \o st.acc])

\* str(int(s) * factor)
Times(s, factor) ==
    StripZeros(TimesLoop(s, factor, Len(s), [carry |-> 0, acc |-> <<>>]))

\* The value of _apply_rules as the list of the stones it stands for: a str
\* is one stone, a list is two.
_apply_rules(stone) ==
    IF stone = <<0>> THEN << <<1>> >>
    ELSE IF Len(stone) % 2 = 0
         THEN LET half == Len(stone) \div 2
              IN  <<SubSeq(stone, 1, half),
                    StripZeros(SubSeq(stone, half + 1, Len(stone)))>>
         ELSE <<Times(stone, 2024)>>

\* counter[key], which is 0 for a key the Counter does not hold.
CountOf(counter, key) == IF key \in DOMAIN counter THEN counter[key] ELSE 0

SetCount(counter, key, n) ==
    [k \in DOMAIN counter \cup {key} |-> IF k = key THEN n ELSE counter[k]]

\* counter[key] += n
AddCount(counter, key, n) ==
    [k \in DOMAIN counter \cup {key} |->
        IF k = key THEN CountOf(counter, key) + n ELSE counter[k]]

RECURSIVE AddAll(_, _, _)
\* for r in rs: counter[r] += n
AddAll(counter, rs, n) ==
    IF rs = <<>> THEN counter
    ELSE AddAll(AddCount(counter, rs[1], n), Tail(rs), n)

\* Counter(list)
Counter(list) == AddAll(<<>>, list, 1)

RECURSIVE BlinkLoop(_, _, _)
\* The loop "for stone in stones" over the stones of todo; new_stones is
\* the Counter built so far.
BlinkLoop(old, todo, new_stones) ==
    IF todo = {} THEN new_stones
    ELSE LET stone == CHOOSE k \in todo : TRUE
         IN  BlinkLoop(old, todo \ {stone},
                       AddAll(new_stones, _apply_rules(stone), old[stone]))

\* sum(stones.values())
SumValues(counter) == SumOver(DOMAIN counter, counter)

(* Inputs of day 11: lines of 1 to MaxStones11 stones, each a number up to *)
(* MaxStone11 or one of a few stones with leading zeros; up to MaxBlinks11 *)
(* blinks; and the example of the puzzle, on which main.py asserts 3, 4,   *)
(* 5, 9, 13 and 22 for 1 to 6 blinks.                                      *)
MaxStones11 == 2
MaxStone11 == 12
MaxBlinks11 == 6

Example11 == << <<1, 2, 5>>, <<1, 7>> >>

Stones11 ==
    {ToDigits(n) : n \in 0..MaxStone11}
    \cup {<<0, 0>>, <<0, 1, 0>>, <<1, 0, 0, 0>>, <<9, 9, 9>>}

Inputs11 ==
    {Example11} \cup UNION {[1..n -> Stones11] : n \in 1..MaxStones11}

\* The state when the for loop of _solve is first reached.
Init11 ==
    /\ pc = "for"
    /\ exercise = None
    /\ result = None
    /\ line \in Inputs11
    /\ number_of_blinks \in 0..MaxBlinks11
    /\ blink = 0
    /\ stones = Counter(line)
    /\ IdleOthers11

\* One pass of the for loop over range(number_of_blinks).
Blink ==
    /\ pc = "for"
    /\ blink < number_of_blinks
    /\ stones' = BlinkLoop(stones, DOMAIN stones, <<>>)
    /\ blink' = blink + 1
    /\ UNCHANGED <<pc, exercise, result, line, number_of_blinks, others11>>

\* The for loop is exhausted: return sum(stones.values()).
Return11 ==
    /\ pc = "for"
    /\ blink = number_of_blinks
    /\ result' = SumValues(stones)
    /\ pc' = "returned"
    /\ UNCHANGED <<exercise, vars11, others11>>

Next11 == Blink \/ Return11

Spec11 == Init11 /\ [][Next11]_vars

(***************************************************************************)
(* Day 11, reference: the explicit list of stones, every stone rewritten   *)
(* at each blink.                                                          *)
(***************************************************************************)
\* The stones that replace stone at a blink.
Blinked(stone) ==
    CASE stone = <<0>> -> << <<1>> >>
      [] stone # <<0>> /\ Len(stone) % 2 = 0 ->
            <<SubSeq(stone, 1, Len(stone) \div 2),
              StripZeros(SubSeq(stone, Len(stone) \div 2 + 1, Len(stone)))>>
      [] OTHER -> <<Times(stone, 2024)>>

RECURSIVE BlinkedList(_)
BlinkedList(list) ==
    IF list = <<>> THEN <<>> ELSE Blinked(list[1]) \o BlinkedList(Tail(list))

RECURSIVE AfterBlinks(_, _)
AfterBlinks(list, n) ==
    IF n = 0 THEN list ELSE AfterBlinks(BlinkedList(list), n - 1)

(***************************************************************************)
(* Day 11, claims.                                                         *)
(***************************************************************************)
\* C11: _solve returns the length of the explicit list of stones got by
\* applying the blink rule to every stone number_of_blinks times; after
\* every pass the Counter holds as many stones as the explicit list.
C11_SolveCountsExplicitList ==
    /\ pc = "returned" => result = Len(AfterBlinks(line, number_of_blinks))
    /\ blink > 0 => SumValues(stones) = Len(AfterBlinks(line, blink))

\* _solve has returned 22 for six blinks of the example, and the Counter
\* holds a stone that stands for several equal stones of the list.
C11_Witness ==
    /\ pc = "returned" /\ line = Example11 /\ number_of_blinks = 6
    /\ result = 22
    /\ \E k \in DOMAIN stones : stones[k] >= 2

(***************************************************************************)
(* Day 12: the garden.  Positions are 0-based <<x, y>> (x the row); a      *)
(* perimeter point is <<x, y, direction>>, the cell outside the region     *)
(* and the direction of the step that reached it.  A region is a record    *)
(* with the sets visited and perimeter.  The variable result is the local  *)
(* result of second_exercise.                                              *)
(***************************************************************************)
\* The order of the recursive calls.
Steps12 == << <<1, 0>>, <<-1, 0>>, <<0, 1>>, <<0, -1>> >>

RECURSIVE _recursive_build_garden_plant(_, _, _, _, _, _)
\* st holds the shared sets visited and perimeter; the four recursive
\* calls of the for loop are made in the order of Steps12, each on the
\* sets the call before it left.
_recursive_build_garden_plant(g, x, y, plant, direction, st) ==
    LET is_outside ==
            x < 0 \/ y < 0 \/ x >= Shape(g)[1] \/ y >= Shape(g)[2]
    IN  IF is_outside \/ At(g, <<x, y>>) # plant \/ <<x, y>> \in st.visited
        THEN (IF is_outside \/ At(g, <<x, y>>) # plant
              THEN [st EXCEPT !.perimeter = @ \cup {<<x, y, direction>>}]
              ELSE st)
        ELSE LET s0 == [st EXCEPT !.visited = @ \cup {<<x, y>>}]
                 s1 == _recursive_build_garden_plant(
                           g, x + Steps12[1][1], y + Steps12[1][2], plant,
                           Steps12[1], s0)
                 s2 == _recursive_build_garden_plant(
                           g, x + Steps12[2][1], y + Steps12[2][2], plant,
                           Steps12[2], s1)
                 s3 == _recursive_build_garden_plant(
                           g, x + Steps12[3][1], y + Steps12[3][2], plant,
                           Steps12[3], s2)
             IN  IF s1.visited = {} \/ s2.visited = {} \/ s3.visited = {}
                 THEN st   \* never: each call is computed before the next
                 ELSE _recursive_build_garden_plant(
                          g, x + Steps12[4][1], y + Steps12[4][2], plant,
                          Steps12[4], s3)

\* A call with the default arguments: fresh sets, direction (0, 0).
BuildFrom(g, p, plant) ==
    _recursive_build_garden_plant(g, p[1], p[2], plant, <<0, 0>>,
                                  [visited |-> {}, perimeter |-> {}])

RECURSIVE GardenPlantLoop(_, _, _, _, _, _)
\* The loop over zip(x, y) of _get_garden_plant from position k on; the
\* value is the list of the regions of the dict, in the order of their keys.
GardenPlantLoop(g, plant, where, k, visited, regions) ==
    IF k > Len(where) THEN regions
    ELSE IF where[k] \in visited
         THEN GardenPlantLoop(g, plant, where, k + 1, visited, regions)
         ELSE LET new == BuildFrom(g, where[k], plant)
              IN  GardenPlantLoop(g, plant, where, k + 1,
                                  visited \cup new.visited,
                                  Append(regions, new))

_get_garden_plant(g, plant) ==
    LET where == FilterSeq(g, RowMajor(g), plant, 1, Len(RowMajor(g)))
        first == BuildFrom(g, where[1], plant)
    IN  GardenPlantLoop(g, plant, where, 1, first.visited, <<first>>)

Abs(n) == IF n < 0 THEN 0 - n ELSE n

\* Tuples of integers of one length, compared as Python compares tuples.
RECURSIVE TupleLess(_, _)
TupleLess(a, b) ==
    /\ a # <<>>
    /\ \/ a[1] < b[1]
       \/ a[1] = b[1] /\ TupleLess(Tail(a), Tail(b))

RECURSIVE Sorted(_, _)
\* sorted(points, key=key), for a key that no two points share; key is a
\* function on the points.
Sorted(points, key) ==
    IF points = {} THEN <<>>
    ELSE LET least == CHOOSE p \in points :
                          \A q \in points \ {p} : TupleLess(key[p], key[q])
         IN  <<least>> \o Sorted(points \ {least}, key)

\* The points of the perimeter whose direction has the absolute value d.
Group(perimeter, d) ==
    {q : q \in {p \in perimeter : <<Abs(p[3][1]), Abs(p[3][2])>> = d}}

\* The sorted group_points of a group: by (y, direction, x) for a vertical
\* side (dx = 0), by (x, direction, y) for a horizontal one.
GroupPoints(group) ==
    LET dx == (CHOOSE p \in group : TRUE)[3][1]
    IN  IF dx = 0
        THEN Sorted(group, [p \in group |-> <<p[2], p[3][1], p[3][2], p[1]>>])
        ELSE Sorted(group, [p \in group |-> <<p[1], p[3][1], p[3][2], p[2]>>])

SameDirectionAlways(position_current, position_next) == FALSE

\* not follow_same_direction
NotSameDirection(position_current, position_next) ==
    position_current[3] # position_next[3]

\* mask_is_side for two successive points of group_points.
mask_is_side(position_current, position_next) ==
    LET manhattan_distance ==
            Abs(position_current[1] - position_next[1])
            + Abs(position_current[2] - position_next[2])
    IN  \/ manhattan_distance = 0
        \/ manhattan_distance > 1
        \/ NotSameDirection(position_current, position_next)

\* What one group adds to n_sides.
GroupSides(group) ==
    IF group = {} THEN 0
    ELSE LET group_points == GroupPoints(group)
         IN  1 + Cardinality({i \in 1..(Len(group_points) - 1) :
                     mask_is_side(group_points[i], group_points[i + 1])})

\* n_sides of a region: the groups of it.groupby are the two absolute
\* directions.
n_sides(perimeter) ==
    GroupSides(Group(perimeter, <<0, 1>>))
    + GroupSides(Group(perimeter, <<1, 0>>))

(* Inputs of day 12: every garden of 3 rows and Columns12 columns of the   *)
(* plants A and B, and the five examples of the puzzle, on which main.py   *)
(* asserts 80, 436, 1206, 236 and 368.                                     *)
Columns12 == 3

Example12_1 ==
    << <<"A", "A", "A", "A">>,
       <<"B", "B", "C", "D">>,
       <<"B", "B", "C", "C">>,
       <<"E", "E", "E", "C">> >>

Example12_2 ==
    << <<"O", "O", "O", "O", "O">>,
       <<"O", "X", "O", "X", "O">>,
       <<"O", "O", "O", "O", "O">>,
       <<"O", "X", "O", "X", "O">>,
       <<"O", "O", "O", "O", "O">> >>

Example12_3 ==
    << <<"R", "R", "R", "R", "I", "I", "C", "C", "F", "F">>,
       <<"R", "R", "R", "R", "I", "I", "C", "C", "C", "F">>,
       <<"V", "V", "R", "R", "R", "C", "C", "F", "F", "F">>,
       <<"V", "V", "R", "C", "C", "C", "J", "F", "F", "F">>,
       <<"V", "V", "V", "V", "C", "J", "J", "C", "F", "E">>,
       <<"V", "V", "I", "V", "C", "C", "J", "J", "E", "E">>,
       <<"V", "V", "I", "I", "I", "C", "J", "J", "E", "E">>,
       <<"M", "I", "I", "I", "I", "I", "J", "J", "E", "E">>,
       <<"M", "I", "I", "I", "S", "I", "J", "E", "E", "E">>,
       <<"M", "M", "M", "I", "S", "S", "J", "E", "E", "E">> >>

Example12_4 ==
    << <<"E", "E", "E", "E", "E">>,
       <<"E", "X", "X", "X", "X">>,
       <<"E", "E", "E", "E", "E">>,
       <<"E", "X", "X", "X", "X">>,
       <<"E", "E", "E", "E", "E">> >>

Example12_5 ==
    << <<"A", "A", "A", "A", "A", "A">>,
       <<"A", "A", "A", "B", "B", "A">>,
       <<"A", "A", "A", "B", "B", "A">>,
       <<"A", "B", "B", "A", "A", "A">>,
       <<"A", "B", "B", "A", "A", "A">>,
       <<"A", "A", "A", "A", "A", "A">> >>

Examples12 ==
    {Example12_1, Example12_2, Example12_3, Example12_4, Example12_5}

Inputs12 == Examples12 \cup [1..3 -> [1..Columns12 -> {"A", "B"}]]

\* The plants of the inputs in the order np.unique sorts them.
Alphabet12 ==
    <<"A", "B", "C", "D", "E", "F", "I", "J", "M", "O", "R", "S", "V", "X">>

\* np.unique(garden)
RECURSIVE UniqueFrom(_, _)
UniqueFrom(g, k) ==
    IF k > Len(Alphabet12) THEN <<>>
    ELSE (IF \E p \in Cells(g) : At(g, p) = Alphabet12[k]
          THEN <<Alphabet12[k]>> ELSE <<>>)
         \o UniqueFrom(g, k + 1)

\* The state when second_exercise has read the file.
Init12 ==
    /\ pc = "plants"
    /\ exercise = "second"
    /\ result = None
    /\ garden \in Inputs12
    /\ garden_plants_all = <<>>
    /\ plant_index = 1
    /\ garden_index = 0
    /\ region_index = 0
    /\ IdleOthers12

\* One element of the list comprehension garden_plants_all.
GetGardenPlant ==
    /\ pc = "plants"
    /\ plant_index <= Len(UniqueFrom(garden, 1))
    /\ garden_plants_all' =
           Append(garden_plants_all,
                  _get_garden_plant(garden, UniqueFrom(garden, 1)[plant_index]))
    /\ plant_index' = plant_index + 1
    /\ UNCHANGED <<pc, exercise, result, garden, garden_index, region_index,
                   others12>>

\* The list is complete: result = 0 and the loops start.
StartRegions ==
    /\ pc = "plants"
    /\ plant_index > Len(UniqueFrom(garden, 1))
    /\ result' = 0
    /\ garden_index' = 1
    /\ region_index' = 1
    /\ pc' = "regions"
    /\ UNCHANGED <<exercise, garden, garden_plants_all, plant_index, others12>>

\* One pass of the inner for loop: the sides of one region.
RegionSides ==
    /\ pc = "regions"
    /\ garden_index <= Len(garden_plants_all)
    /\ LET garden_plants == garden_plants_all[garden_index]
           region == garden_plants[region_index]
       IN  /\ result' = result + Cardinality(region.visited)
                                 * n_sides(region.perimeter)
           /\ IF region_index < Len(garden_plants)
              THEN region_index' = region_index + 1 /\ UNCHANGED garden_index
              ELSE region_index' = 1 /\ garden_index' = garden_index + 1
    /\ UNCHANGED <<pc, exercise, garden, garden_plants_all, plant_index,
                   others12>>

\* The loops are exhausted: return result.
Return12 ==
    /\ pc = "regions"
    /\ garden_index > Len(garden_plants_all)
    /\ pc' = "returned"
    /\ UNCHANGED <<exercise, result, vars12, others12>>

Next12 == GetGardenPlant \/ StartRegions \/ RegionSides \/ Return12

Spec12 == Init12 /\ [][Next12]_vars

(***************************************************************************)
(* Day 12, reference: regions as connected components, sides counted by    *)
(* their first fence segment.                                              *)
(***************************************************************************)
RECURSIVE Connected(_, _)
\* The cells of g joined to a cell of S by orthogonal steps on one plant.
Connected(g, S) ==
    LET more == {q : q \in {c \in Cells(g) :
                    \E p \in S : Adjacent(p, c) /\ At(g, p) = At(g, c)}}
    IN  IF more \subseteq S THEN S ELSE Connected(g, S \cup more)

RegionsOf(g) == {Connected(g, {p}) : p \in Cells(g)}

\* A fence segment of R is <<c, d>>: the cell c of R has no cell of R on
\* its side d.
Fence(R) ==
    {s \in R \X {<<1, 0>>, <<-1, 0>>, <<0, 1>>, <<0, -1>>} :
        <<s[1][1] + s[2][1], s[1][2] + s[2][2]>> \notin R}

\* The segment before s on its line: same facing, one cell up (for a
\* vertical fence) or one cell left (for a horizontal one).
Before(s) ==
    <<IF s[2][1] = 0 THEN <<s[1][1] - 1, s[1][2]>>
      ELSE <<s[1][1], s[1][2] - 1>>, s[2]>>

\* The sides of R: the fence segments with no segment before them.
SidesOf(R) == Cardinality({s \in Fence(R) : Before(s) \notin Fence(R)})

PriceBySides(g) ==
    SumOver(RegionsOf(g), [R \in RegionsOf(g) |-> Cardinality(R) * SidesOf(R)])

(***************************************************************************)
(* Day 12, claims.                                                         *)
(***************************************************************************)
\* C12: second_exercise returns the sum over the regions of the garden of
\* the area times the number of straight fence sides.
C12_SecondExerciseSumsAreaTimesSides ==
    pc = "returned" => result = PriceBySides(garden)

\* second_exercise has returned 368 on the fifth example, whose region A
\* touches itself diagonally twice.
C12_Witness ==
    pc = "returned" /\ garden = Example12_5 /\ result = 368

(***************************************************************************)
(* Day 13: the claw machines.  A Machine is a record of two Buttons (right *)
(* and forward) and a prize <<X, Y>>; the file format admits any numbers   *)
(* that are not negative.                                                  *)
(***************************************************************************)
PRICE_TOKEN_A == 3
PRICE_TOKEN_B == 1

\* n / d is a float equal to its int(): for the magnitudes of the inputs
\* the float quotient is exact when d divides n and is not whole otherwise.
IsWhole(n, d) == Abs(n) % Abs(d) = 0

\* int(n / d) for a whole quotient.
WholeQuotient(n, d) ==
    IF (n < 0) = (d < 0) THEN Abs(n) \div Abs(d) ELSE 0 - (Abs(n) \div Abs(d))

determinant(m) ==
    m.button_a.right * m.button_b.forward
    - m.button_a.forward * m.button_b.right

\* The numerators of x and y, lines 105 and 106.
NumeratorX(m) == m.prize[1] * m.button_b.forward - m.prize[2] * m.button_b.right
NumeratorY(m) == m.button_a.right * m.prize[2] - m.button_a.forward * m.prize[1]

\* The value _best_play returns when the determinant is not 0.
_best_play(m) ==
    IF ~IsWhole(NumeratorX(m), determinant(m))
       \/ ~IsWhole(NumeratorY(m), determinant(m))
    THEN 0
    ELSE WholeQuotient(NumeratorX(m), determinant(m)) * PRICE_TOKEN_A
         + WholeQuotient(NumeratorY(m), determinant(m)) * PRICE_TOKEN_B

(* Inputs of day 13: machines whose buttons move 1 to MaxButton13 on each  *)
(* axis and whose prize is at 0 to MaxPrize13 on each axis, and the four   *)
(* machines of the example, on which main.py asserts the sum 480.          *)
MaxButton13 == 3
MaxPrize13 == 6

Button(right, forward) == [right |-> right, forward |-> forward]

Machine(button_a, button_b, prize) ==
    [button_a |-> button_a, button_b |-> button_b, prize |-> prize]

Example13 ==
    << Machine(Button(94, 34), Button(22, 67), <<8400, 5400>>),
       Machine(Button(26, 66), Button(67, 21), <<12748, 12176>>),
       Machine(Button(17, 86), Button(84, 37), <<7870, 6450>>),
       Machine(Button(69, 23), Button(27, 71), <<18641, 10279>>) >>

Buttons13 == {Button(r, f) : r \in 1..MaxButton13, f \in 1..MaxButton13}

Inputs13 ==
    Range(Example13)
    \cup {Machine(a, b, <<px, py>>) :
             a \in Buttons13, b \in Buttons13,
             px \in 0..MaxPrize13, py \in 0..MaxPrize13}

Init13 ==
    /\ pc = "call"
    /\ exercise = None
    /\ result = None
    /\ machine \in Inputs13
    /\ IdleOthers13

\* _best_play runs to its return.
BestPlayReturn ==
    /\ pc = "call"
    /\ determinant(machine) # 0
    /\ result' = _best_play(machine)
    /\ pc' = "returned"
    /\ UNCHANGED <<exercise, vars13, others13>>

\* The division of line 105 raises ZeroDivisionError.
BestPlayRaise ==
    /\ pc = "call"
    /\ determinant(machine) = 0
    /\ pc' = "raised"
    /\ UNCHANGED <<exercise, result, vars13, others13>>

Next13 == BestPlayReturn \/ BestPlayRaise

Spec13 == Init13 /\ [][Next13]_vars

(***************************************************************************)
(* Day 13, reference: the press counts that reach the prize.               *)
(***************************************************************************)
\* The pairs <<a, b>> of press counts, none negative, that bring the claw
\* onto the prize on both axes.
Plays(m) ==
    {<<a, (m.prize[1] - a * m.button_a.right) \div m.button_b.right>> :
        a \in {c \in 0..(m.prize[1] \div m.button_a.right) :
                 LET rest == m.prize[1] - c * m.button_a.right
                 IN  /\ rest % m.button_b.right = 0
                     /\ c * m.button_a.forward
                        + (rest \div m.button_b.right) * m.button_b.forward
                        = m.prize[2]}}

\* The pairs of integers, negative or not, that solve both equations; no
\* solution of a machine of the family is beyond the span.
IntegerSolutions(m) ==
    LET span == 2 * MaxPrize13 * MaxButton13
    IN  {<<a, (m.prize[1] - a * m.button_a.right) \div m.button_b.right>> :
            a \in {c \in (0 - span)..span :
                     LET rest == m.prize[1] - c * m.button_a.right
                     IN  /\ rest % m.button_b.right = 0
                         /\ c * m.button_a.forward
                            + (rest \div m.button_b.right) * m.button_b.forward
                            = m.prize[2]}}

(***************************************************************************)
(* Day 13, claims.                                                         *)
(***************************************************************************)
\* C13: _best_play returns 3 * a + b when press counts a >= 0 and b >= 0
\* reach the prize on both axes, and returns 0 when no such counts exist.
C13_BestPlayCostsValidPlay ==
    pc # "call" =>
        /\ pc = "returned"
        /\ IF Plays(machine) = {} THEN result = 0
           ELSE \E play \in Plays(machine) : result = 3 * play[1] + play[2]

\* What holds instead: when the determinant is not 0, _best_play returns
\* 3 * x + y for the integers x and y, negative or not, that solve both
\* equations, and 0 when there are none.
C13_BestPlaySolvesOverAllIntegers ==
    (pc = "returned" /\ machine \notin Range(Example13)) =>
        IF IntegerSolutions(machine) = {} THEN result = 0
        ELSE \E s \in IntegerSolutions(machine) : result = 3 * s[1] + s[2]

(***************************************************************************)
(* Day 15: the warehouse.  Cells are the characters of the file; positions *)
(* are 0-based <<row, column>>.  WALL, EMPTY and DICT_MOVEMENTS have the   *)
(* values day 16 gives them.  Only the branches of _apply_movements that   *)
(* a widened map can take are modelled: a widened map holds no BOX.        *)
(***************************************************************************)
ROBOT == "@"
BOX == "O"
BOX_WIDER_LEFT == "["
BOX_WIDER_RIGHT == "]"
WIDE == {BOX_WIDER_LEFT, BOX_WIDER_RIGHT}

GPS_ROW == 100
GPS_COLUMN == 1

\* position + DICT_MOVEMENTS[movement]
Toward(p, m) == <<p[1] + DICT_MOVEMENTS[m][1], p[2] + DICT_MOVEMENTS[m][2]>>

\* _widen_map: every cell becomes two.  A cell that is none of the four
\* characters stays None, as np.empty(dtype=object) leaves it.
_widen_map(w) ==
    [row \in 1..Len(w) |->
        [c \in 1..(2 * Len(w[row])) |->
            LET old == w[row][(c + 1) \div 2]
                first == c % 2 = 1
            IN  CASE old = WALL -> WALL
                  [] old = BOX ->
                        IF first THEN BOX_WIDER_LEFT ELSE BOX_WIDER_RIGHT
                  [] old = EMPTY -> EMPTY
                  [] old = ROBOT -> IF first THEN ROBOT ELSE EMPTY
                  [] OTHER -> None]]

\* _sum_gps_coordinates
_sum_gps_coordinates(w) ==
    LET boxes == {p \in Cells(w) : At(w, p) \in {BOX, BOX_WIDER_LEFT}}
    IN  SumOver(boxes, [p \in boxes |-> p[1] * GPS_ROW + p[2] * GPS_COLUMN])

RECURSIVE SidewaysLoop(_, _, _, _)
\* The while loop of lines 145-159; the value holds box_next_position and
\* boxes_to_move when it ends.
SidewaysLoop(w, m, box_next_position, boxes) ==
    IF At(w, box_next_position) \notin WIDE
    THEN [box_next_position |-> box_next_position, boxes_to_move |-> boxes]
    ELSE LET next == Toward(box_next_position, m)
         IN  SidewaysLoop(w, m, next,
                          IF At(w, next) \in WIDE
                          THEN Append(boxes, <<next, At(w, next)>>)
                          ELSE boxes)

OtherSideForgotten(w, p) == p

\* box_next_position_other_side, lines 174-182, for a cell that holds one
\* half of a wide box.
OtherSide(w, p) ==
    IF At(w, p) = BOX_WIDER_LEFT THEN Toward(p, ">") ELSE Toward(p, "<")

RECURSIVE FrontLoop(_, _, _, _, _)
\* The for loop of lines 173-209 over box_next_positions_copy from number k
\* on; st holds box_next_positions and boxes_to_move.
FrontLoop(w, m, copy, k, st) ==
    IF k > Len(copy) THEN st
    ELSE IF At(w, copy[k]) \notin WIDE
         THEN FrontLoop(w, m, copy, k + 1, st)
         ELSE LET other == OtherSide(w, copy[k])
              IN  FrontLoop(w, m, copy, k + 1,
                     [box_next_positions |->
                          st.box_next_positions
                          \o <<Toward(copy[k], m), Toward(other, m)>>,
                      boxes_to_move |->
                          st.boxes_to_move
                          \o << <<copy[k], At(w, copy[k])>>,
                                <<other, At(w, other)>> >>])

RECURSIVE UpDownLoop(_, _, _)
\* The while loop of lines 166-217.
UpDownLoop(w, m, st) ==
    IF \A i \in 1..Len(st.box_next_positions) :
           At(w, st.box_next_positions[i]) \notin WIDE
    THEN st
    ELSE LET after == FrontLoop(w, m, st.box_next_positions, 1,
                                [box_next_positions |-> <<>>,
                                 boxes_to_move |-> st.boxes_to_move])
             next_is_wall ==
                 \E i \in 1..Len(after.box_next_positions) :
                     At(w, after.box_next_positions[i]) = WALL
         IN  IF next_is_wall THEN after ELSE UpDownLoop(w, m, after)

RECURSIVE ClearBoxes(_, _, _)
\* The loop of lines 227-231 from box number k on.
ClearBoxes(w, boxes, k) ==
    IF k > Len(boxes) THEN w
    ELSE ClearBoxes(IF At(w, boxes[k][1]) # ROBOT
                    THEN SetMark(w, boxes[k][1], EMPTY) ELSE w,
                    boxes, k + 1)

RECURSIVE WriteBoxes(_, _, _, _)
\* The loop of lines 233-237 from box number k on.
WriteBoxes(w, m, boxes, k) ==
    IF k > Len(boxes) THEN w
    ELSE WriteBoxes(SetMark(w, Toward(boxes[k][1], m), boxes[k][2]),
                    m, boxes, k + 1)

\* One pass of the for loop of _apply_movements on a widened map: the new
\* warehouse with the locals boxes_to_move and next_is_empty.
Pass(w, m) ==
    LET robot_position == Where(w, ROBOT)
        next_position == Toward(robot_position, m)
        stepped == SetMark(SetMark(w, robot_position, EMPTY),
                           next_position, ROBOT)
    IN  IF At(w, next_position) = EMPTY
        THEN [warehouse |-> stepped, boxes_to_move |-> <<>>,
              next_is_empty |-> FALSE]
        ELSE IF At(w, next_position) \in WIDE
        THEN LET found ==
                   IF m \in {"<", ">"}
                   THEN LET side == SidewaysLoop(
                                w, m, next_position,
                                << <<next_position, At(w, next_position)>> >>)
                        IN  [boxes_to_move |-> side.boxes_to_move,
                             next_is_empty |->
                                 At(w, side.box_next_position) = EMPTY]
                   ELSE LET front == UpDownLoop(
                                w, m,
                                [box_next_positions |-> <<next_position>>,
                                 boxes_to_move |-> <<>>])
                        IN  [boxes_to_move |-> front.boxes_to_move,
                             next_is_empty |->
                                 \A i \in 1..Len(front.box_next_positions) :
                                     At(w, front.box_next_positions[i]) = EMPTY]
             IN  [warehouse |->
                      IF found.next_is_empty
                      THEN WriteBoxes(
                               ClearBoxes(stepped, found.boxes_to_move, 1),
                               m, found.boxes_to_move, 1)
                      ELSE w,
                  boxes_to_move |-> found.boxes_to_move,
                  next_is_empty |-> found.next_is_empty]
        ELSE [warehouse |-> w, boxes_to_move |-> <<>>, next_is_empty |-> FALSE]

MaxBoxes15 == 2

\* The room every warehouse of the family is made from, before widening.
Room15 ==
    << <<"#", "#", "#", "#", "#">>,
       <<"#", ".", ".", ".", "#">>,
       <<"#", ".", ".", ".", "#">>,
       <<"#", ".", ".", ".", "#">>,
       <<"#", ".", ".", ".", "#">>,
       <<"#", "#", "#", "#", "#">> >>

RECURSIVE Marked15(_, _, _)
\* The warehouses got from m by putting mark on at most k free cells.
Marked15(m, mark, k) ==
    IF k = 0 THEN {m}
    ELSE LET fewer == Marked15(m, mark, k - 1)
         IN  fewer \cup UNION {{SetMark(n, p, mark) : p \in FreeCells(n)}
                               : n \in fewer}

\* The room as it is and with one more wall in its middle column.
Rooms15 ==
    {Room15} \cup {SetMark(Room15, p, WALL)
                   : p \in {q \in FreeCells(Room15) : q[2] = 2}}

Warehouses15 ==
    UNION {UNION {Marked15(SetMark(room, r, ROBOT), BOX, MaxBoxes15)
                  : r \in FreeCells(room)}
           : room \in Rooms15}

\* inputs/example_3.txt, which main.py expects 618 for.
Example15 ==
    [warehouse |->
        << <<"#", "#", "#", "#", "#", "#", "#">>,
           <<"#", ".", ".", ".", "#", ".", "#">>,
           <<"#", ".", ".", ".", ".", ".", "#">>,
           <<"#", ".", ".", "O", "O", "@", "#">>,
           <<"#", ".", ".", "O", ".", ".", "#">>,
           <<"#", ".", ".", ".", ".", ".", "#">>,
           <<"#", "#", "#", "#", "#", "#", "#">> >>,
     movements |-> <<"<", "v", "v", "<", "<", "^", "^", "<", "<", "^", "^">>]

\* second_exercise, lines 250-256: the file is read and widened.  Of a file
\* of the family only the warehouse is fixed; its movements are any string,
\* read one character at a time.
Init15 ==
    /\ pc = "for"
    /\ exercise = "second"
    /\ result = None
    /\ \/ /\ warehouse = _widen_map(Example15.warehouse)
          /\ movements = [any |-> FALSE, rest |-> Example15.movements]
       \/ /\ warehouse \in {_widen_map(w) : w \in Warehouses15}
          /\ movements = [any |-> TRUE, rest |-> <<>>]
    /\ last_movement = None
    /\ boxes_to_move = <<>>
    /\ next_is_empty = FALSE
    /\ IdleOthers15

\* One pass of the loop of _apply_movements, lines 116-237.
ApplyMovement ==
    /\ pc = "for"
    /\ \E m \in IF movements.any THEN DOMAIN DICT_MOVEMENTS
                ELSE IF movements.rest # <<>> THEN {Head(movements.rest)}
                ELSE {} :
          LET pass == Pass(warehouse, m)
          IN  /\ warehouse' = pass.warehouse
              /\ boxes_to_move' = pass.boxes_to_move
              /\ next_is_empty' = pass.next_is_empty
              /\ last_movement' = m
    /\ movements' = IF movements.any THEN movements
                    ELSE [movements EXCEPT !.rest = Tail(@)]
    /\ UNCHANGED <<pc, exercise, result>>
    /\ UNCHANGED others15

\* The loop is over: line 239.
Return15 ==
    /\ pc = "for"
    /\ movements.any \/ movements.rest = <<>>
    /\ result' = _sum_gps_coordinates(warehouse)
    /\ pc' = "returned"
    /\ UNCHANGED <<exercise, vars15>>
    /\ UNCHANGED others15

Next15 == ApplyMovement \/ Return15

Spec15 == Init15 /\ [][Next15]_vars

(***************************************************************************)
(* Reference for day 15: the pushed group and the warehouse after a push.  *)
(***************************************************************************)
\* The cell that holds the other half of the wide box at p.
Partner(w, p) ==
    IF At(w, p) = BOX_WIDER_LEFT THEN <<p[1], p[2] + 1>> ELSE <<p[1], p[2] - 1>>

RECURSIVE Touched(_, _, _)
\* The cells of the boxes transitively touched from the cells of group when
\* they move toward m.
Touched(w, m, group) ==
    LET ahead == {Toward(p, m) : p \in group}
        more == {q : q \in {p \in ahead : At(w, p) \in WIDE}}
        grown == group \cup more \cup {Partner(w, p) : p \in more}
    IN  IF grown = group THEN group ELSE Touched(w, m, grown)

\* The cells of the boxes of the group a robot pushes when it moves toward m
\* into a wide box.
PushedGroup(w, m) ==
    LET first == Toward(Where(w, ROBOT), m)
    IN  Touched(w, m, {first, Partner(w, first)})

\* A cell directly ahead of a box of the group is a wall.
GroupBlocked(w, m) == \E p \in PushedGroup(w, m) : At(w, Toward(p, m)) = WALL

\* The warehouse with the robot and every box of the group one cell further.
Pushed(w, m) ==
    LET group == PushedGroup(w, m)
        robot == Where(w, ROBOT)
        back == <<-DICT_MOVEMENTS[m][1], -DICT_MOVEMENTS[m][2]>>
    IN  [row \in 1..Len(w) |->
            [c \in 1..Len(w[row]) |->
                LET p == <<row - 1, c - 1>>
                    from == <<p[1] + back[1], p[2] + back[2]>>
                IN  IF from = robot THEN ROBOT
                    ELSE IF from \in group THEN At(w, from)
                    ELSE IF p \in group \/ p = robot THEN EMPTY
                    ELSE w[row][c]]]

\* C14: a move into a wide box moves the robot and every box of the pushed
\* group by exactly one cell if and only if no cell directly ahead of a box
\* of the group is a wall; otherwise it leaves the whole warehouse unchanged.
C14_WideBoxPushMovesGroupOrNothing ==
    [][(pc = "for" /\ pc' = "for" /\ warehouse # <<>>
        /\ At(warehouse, Toward(Where(warehouse, ROBOT), last_movement'))
               \in WIDE)
       => warehouse' = IF GroupBlocked(warehouse, last_movement')
                       THEN warehouse
                       ELSE Pushed(warehouse, last_movement')]_vars

\* A move up or down has pushed a group of at least two boxes, one of them
\* half a cell to the side of the one that pushes it.
C14_Witness ==
    /\ pc = "for"
    /\ last_movement \in {"^", "v"}
    /\ next_is_empty
    /\ Len(boxes_to_move) >= 4
    /\ \E i, j \in 1..Len(boxes_to_move) :
           /\ boxes_to_move[i][2] = BOX_WIDER_LEFT
           /\ boxes_to_move[j][2] = BOX_WIDER_LEFT
           /\ boxes_to_move[i][1][2] = boxes_to_move[j][1][2] + 1

\* A move into a wide box was refused although the box the robot touches
\* has no wall ahead: a box further in the group is against a wall.
C14_WitnessBlocked ==
    /\ pc = "for"
    /\ last_movement \in {"^", "v"}
    /\ ~next_is_empty
    /\ Len(boxes_to_move) >= 4
    /\ At(warehouse, Toward(boxes_to_move[1][1], last_movement)) # WALL
    /\ At(warehouse, Toward(boxes_to_move[2][1], last_movement)) # WALL

Example15Returned ==
    (pc = "returned" /\ warehouse # <<>> /\ ~movements.any) => result = 618

(***************************************************************************)
(* Day 17: the 3-bit computer.  registers is a record of naturals, program *)
(* a sequence of <<opcode, operand>> pairs, instruction_pointer counts     *)
(* pairs from 0.  Strings are built as ",".join(map(str, ...)) builds      *)
(* them.  Register values stay below 2^31.                                 *)
(***************************************************************************)
COMBO_OPCODES == {0, 2, 5, 6, 7}

\* None, where the other values are numbers.
Nothing == -1

RECURSIVE Pow2(_)
Pow2(k) == IF k = 0 THEN 1 ELSE 2 * Pow2(k - 1)

\* a // 2**operand for 0 <= a < 2^31.
FloorDivPow2(a, operand) == IF operand >= 31 THEN 0 ELSE a \div Pow2(operand)

RECURSIVE BitXor(_, _)
\* a ^ b on naturals.
BitXor(a, b) ==
    IF a = 0 THEN b
    ELSE IF b = 0 THEN a
    ELSE ((a + b) % 2) + 2 * BitXor(a \div 2, b \div 2)

\* Each opcode function gives the registers it leaves and the value it
\* returns, Nothing when it returns None.
_adv(regs, operand) ==
    [registers |-> [regs EXCEPT !.A = FloorDivPow2(regs.A, operand)],
     output |-> Nothing]

_bxl(regs, operand) ==
    [registers |-> [regs EXCEPT !.B = BitXor(regs.B, operand)],
     output |-> Nothing]

_bst(regs, operand) ==
    [registers |-> [regs EXCEPT !.B = operand % 8], output |-> Nothing]

_jnz(regs, operand) ==
    [registers |-> regs, output |-> IF regs.A # 0 THEN operand ELSE Nothing]

_bxc(regs, operand) ==
    [registers |-> [regs EXCEPT !.B = BitXor(regs.B, regs.C)],
     output |-> Nothing]

_out(regs, operand) == [registers |-> regs, output |-> operand % 8]

_bdv(regs, operand) ==
    [registers |-> [regs EXCEPT !.B = FloorDivPow2(regs.A, operand)],
     output |-> Nothing]

_cdv(regs, operand) ==
    [registers |-> [regs EXCEPT !.C = FloorDivPow2(regs.A, operand)],
     output |-> Nothing]

OPCODES(opcode, regs, operand) ==
    CASE opcode = 0 -> _adv(regs, operand)
      [] opcode = 1 -> _bxl(regs, operand)
      [] opcode = 2 -> _bst(regs, operand)
      [] opcode = 3 -> _jnz(regs, operand)
      [] opcode = 4 -> _bxc(regs, operand)
      [] opcode = 5 -> _out(regs, operand)
      [] opcode = 6 -> _bdv(regs, operand)
      [] opcode = 7 -> _cdv(regs, operand)

_translate_operand(regs, operand) ==
    CASE operand = 4 -> regs.A
      [] operand = 5 -> regs.B
      [] operand = 6 -> regs.C
      [] operand = 7 -> Nothing
      [] OTHER -> operand

\* The literal operand given to an opcode that is not a combo opcode.
LiteralOperand(regs, operand) == operand

\* operand_translated, lines 183-186.
Translated(opcode, regs, operand) ==
    IF opcode \in COMBO_OPCODES THEN _translate_operand(regs, operand)
    ELSE LiteralOperand(regs, operand)

\* program[instruction_pointer] raises IndexError.
PointerOutside(prog, pointer) == pointer >= Len(prog)

\* The opcode function raises TypeError: it computes with None.  _jnz and
\* _bxc do not compute with their operand.
OperandUnusable(prog, pointer, regs) ==
    /\ ~PointerOutside(prog, pointer)
    /\ LET opcode == prog[pointer + 1][1]
       IN  /\ Translated(opcode, regs, prog[pointer + 1][2]) = Nothing
           /\ opcode \in COMBO_OPCODES

\* One pass of the while loop of _apply_program, lines 179-200, that does
\* not raise: the registers, the pointer and the outputs it leaves, and
\* whether it breaks out of the loop.
LoopPass(prog, st) ==
    LET opcode == prog[st.instruction_pointer + 1][1]
        operand == prog[st.instruction_pointer + 1][2]
        done == OPCODES(opcode, st.registers,
                        Translated(opcode, st.registers, operand))
    IN  IF opcode = 3 /\ done.output # Nothing
        THEN [registers |-> done.registers,
              instruction_pointer |-> done.output,
              outputs |-> st.outputs,
              break |-> FALSE]
        ELSE [registers |-> done.registers,
              instruction_pointer |-> st.instruction_pointer + 1,
              outputs |-> IF opcode = 5 THEN Append(st.outputs, done.output)
                          ELSE st.outputs,
              break |-> st.instruction_pointer + 1 = Len(prog)]

\* str(n) for the values an output or a number of the program can have.
Str(n) == <<"0", "1", "2", "3", "4", "5", "6", "7">>[n + 1]

RECURSIVE Join(_)
\* ",".join(map(str, numbers))
Join(numbers) ==
    IF numbers = <<>> THEN ""
    ELSE IF Len(numbers) = 1 THEN Str(numbers[1])
    ELSE Str(numbers[1]) \o "," \o Join(Tail(numbers))

RECURSIVE ApplyLoop(_, _, _)
\* The while loop of _apply_program from the state st on.  seen holds the
\* states the loop was in at the head of a pass: the loop never ends when it
\* comes back to one of them.
ApplyLoop(prog, st, seen) ==
    LET here == <<st.instruction_pointer, st.registers>>
    IN  IF PointerOutside(prog, st.instruction_pointer)
           \/ OperandUnusable(prog, st.instruction_pointer, st.registers)
        THEN [status |-> "raised", output |-> None]
        ELSE IF here \in seen THEN [status |-> "hangs", output |-> None]
        ELSE LET after == LoopPass(prog, st)
             IN  IF after.break
                 THEN [status |-> "returned", output |-> Join(after.outputs)]
                 ELSE ApplyLoop(prog, after, seen \cup {here})

\* _apply_program, lines 176-202.
_apply_program(regs, prog) ==
    ApplyLoop(prog,
              [registers |-> regs, instruction_pointer |-> 0,
               outputs |-> <<>>],
              {})

MaxRegister17 == 4
MaxOutputs17 == 11
MaxOverrun17 == 4

\* inputs/example.txt, which main.py expects "4,6,3,5,6,3,5,2,1,0" for.
Example17 ==
    [registers |-> [A |-> 729, B |-> 0, C |-> 0],
     program |-> << <<0, 1>>, <<5, 4>>, <<3, 0>> >>]

\* inputs/example_2.txt, which main.py expects 117440 for.
Example17_2 ==
    [registers |-> [A |-> 2024, B |-> 0, C |-> 0],
     program |-> << <<0, 3>>, <<5, 4>>, <<3, 0>> >>]

Pairs17 == (0..7) \X (0..7)

\* The programs of one and of two instructions.
Programs17 == {<<p>> : p \in Pairs17} \cup {<<p, q>> : p, q \in Pairs17}

Inputs17 ==
    {Example17}
    \cup [registers : [A : 0..MaxRegister17, B : {0, 5}, C : {0, 3}],
          program : Programs17]

\* first_exercise, lines 206-208, at the head of the loop of _apply_program.
Init17 ==
    /\ pc = "while"
    /\ exercise = "first"
    /\ result = None
    /\ \E input \in Inputs17 :
          /\ registers = input.registers
          /\ program = input.program
    /\ instruction_pointer = 0
    /\ outputs = <<>>
    /\ suffix_index = 0
    /\ output = None
    /\ IdleOthers17

\* One pass of the while loop of _apply_program, lines 179-200.  A run that
\* has MaxOutputs17 outputs is not followed further.
ProgramPass ==
    /\ pc = "while"
    /\ Len(outputs) < MaxOutputs17
    /\ ~PointerOutside(program, instruction_pointer)
    /\ ~OperandUnusable(program, instruction_pointer, registers)
    /\ LET after == LoopPass(program,
                             [registers |-> registers,
                              instruction_pointer |-> instruction_pointer,
                              outputs |-> outputs])
       IN  /\ registers' = after.registers
           /\ instruction_pointer' = after.instruction_pointer
           /\ outputs' = after.outputs
           /\ pc' = IF after.break THEN "join" ELSE "while"
    /\ UNCHANGED <<exercise, result, program, suffix_index, output>>
    /\ UNCHANGED others17

\* Line 179 raises IndexError, or the opcode function raises TypeError.
ProgramRaise ==
    /\ pc = "while"
    /\ \/ PointerOutside(program, instruction_pointer)
       \/ OperandUnusable(program, instruction_pointer, registers)
    /\ pc' = "raised"
    /\ UNCHANGED <<exercise, result, vars17>>
    /\ UNCHANGED others17

\* Line 202.
Return17 ==
    /\ pc = "join"
    /\ result' = Join(outputs)
    /\ pc' = "returned"
    /\ UNCHANGED <<exercise, vars17>>
    /\ UNCHANGED others17

Next17 == ProgramPass \/ ProgramRaise \/ Return17

Spec17 == Init17 /\ [][Next17]_vars

\* The numbers of the program, one after the other.
Flat(prog) == [k \in 1..(2 * Len(prog)) |-> prog[(k + 1) \div 2][2 - (k % 2)]]

\* ",".join(program_str.split(",")[i:])
Suffix(prog, i) == Join(SubSeq(Flat(prog), i + 1, 2 * Len(prog)))

\* A file whose program gives itself from A = 1832 and from no lower value.
Search17_1832 ==
    [registers |-> [A |-> 0, B |-> 0, C |-> 3],
     program |-> << <<0, 5>>, <<5, 4>>, <<4, 3>>, <<3, 0>> >>]

Searches17 == {Example17_2, Search17_1832}

\* second_exercise, lines 212-214.
InitSearch17 ==
    /\ pc = "first_run"
    /\ exercise = "second"
    /\ result = None
    /\ \E input \in Searches17 :
          /\ registers = input.registers
          /\ program = input.program
    /\ instruction_pointer = 0
    /\ outputs = <<>>
    /\ suffix_index = 2 * Len(program)
    /\ output = None
    /\ IdleOthers17

\* Where second_exercise is after a call of _apply_program that was made
\* where the call returns to next.
AfterCall(call, next) == IF call.status = "returned" THEN next ELSE call.status

\* Lines 216-219.
FirstRun ==
    /\ pc = "first_run"
    /\ LET call == _apply_program(registers, program)
       IN  /\ output' = call.output
           /\ pc' = AfterCall(call, "for")
           /\ registers' = IF call.status = "returned"
                           THEN [registers EXCEPT !.A = 0] ELSE registers
    /\ UNCHANGED <<exercise, result, program, instruction_pointer, outputs,
                   suffix_index>>
    /\ UNCHANGED others17

\* Lines 220-222: the next i of the for loop.
ShiftAndRun ==
    /\ pc = "for"
    /\ suffix_index > 0
    /\ suffix_index' = suffix_index - 1
    /\ registers' = [registers EXCEPT !.A = 8 * @]
    /\ LET call == _apply_program(registers', program)
       IN  /\ output' = call.output
           /\ pc' = AfterCall(call, "while")
    /\ UNCHANGED <<exercise, result, program, instruction_pointer, outputs>>
    /\ UNCHANGED others17

\* The value the search is not followed beyond: MaxOverrun17 times the
\* first number that has more octal digits than the suffix has numbers.
SearchCap(prog, i) == MaxOverrun17 * Pow2(3 * (2 * Len(prog) - i))

\* Lines 223-225: the output is not the suffix.
IncrementAndRun ==
    /\ pc = "while"
    /\ output # Suffix(program, suffix_index)
    /\ registers.A < SearchCap(program, suffix_index)
    /\ registers' = [registers EXCEPT !.A = @ + 1]
    /\ LET call == _apply_program(registers', program)
       IN  /\ output' = call.output
           /\ pc' = AfterCall(call, "while")
    /\ UNCHANGED <<exercise, result, program, instruction_pointer, outputs,
                   suffix_index>>
    /\ UNCHANGED others17

\* Line 223: the output is the suffix, the while loop ends.
SuffixFound ==
    /\ pc = "while"
    /\ output = Suffix(program, suffix_index)
    /\ pc' = "for"
    /\ UNCHANGED <<exercise, result, vars17>>
    /\ UNCHANGED others17

\* Line 227.
ReturnSearch17 ==
    /\ pc = "for"
    /\ suffix_index = 0
    /\ result' = registers.A
    /\ pc' = "returned"
    /\ UNCHANGED <<exercise, vars17>>
    /\ UNCHANGED others17

NextSearch17 ==
    FirstRun \/ ShiftAndRun \/ IncrementAndRun \/ SuffixFound \/ ReturnSearch17

SpecSearch17 == InitSearch17 /\ [][NextSearch17]_vars

(***************************************************************************)
(* Reference for day 17: the instructions as the puzzle defines them.      *)
(***************************************************************************)
\* The value of a combo operand.
Combo(regs, operand) ==
    CASE operand \in 0..3 -> operand
      [] operand = 4 -> regs.A
      [] operand = 5 -> regs.B
      [] operand = 6 -> regs.C

\* floor(a / 2^k)
FloorOfQuotient(a, k) ==
    IF k >= 31 THEN 0
    ELSE CHOOSE q \in 0..a : q * Pow2(k) <= a /\ a < (q + 1) * Pow2(k)

\* The number whose bit k is set when bit k of exactly one of a and b is.
ExclusiveOr(a, b) ==
    LET bit == [k \in 0..30 |->
                   IF (a \div Pow2(k)) % 2 # (b \div Pow2(k)) % 2
                   THEN Pow2(k) ELSE 0]
    IN  SumOver(0..30, bit)

\* What the instruction at the pointer does to the registers, the pointer and
\* the outputs.
Executed(prog, regs, pointer, outs) ==
    LET opcode == prog[pointer + 1][1]
        operand == prog[pointer + 1][2]
    IN  [registers |->
             CASE opcode = 0 ->
                    [regs EXCEPT !.A = FloorOfQuotient(regs.A, Combo(regs, operand))]
               [] opcode = 6 ->
                    [regs EXCEPT !.B = FloorOfQuotient(regs.A, Combo(regs, operand))]
               [] opcode = 7 ->
                    [regs EXCEPT !.C = FloorOfQuotient(regs.A, Combo(regs, operand))]
               [] opcode = 1 -> [regs EXCEPT !.B = ExclusiveOr(regs.B, operand)]
               [] opcode = 2 -> [regs EXCEPT !.B = Combo(regs, operand) % 8]
               [] opcode = 4 -> [regs EXCEPT !.B = ExclusiveOr(regs.B, regs.C)]
               [] OTHER -> regs,
         instruction_pointer |->
             IF opcode = 3 /\ regs.A # 0 THEN operand ELSE pointer + 1,
         outputs |->
             IF opcode = 5 THEN Append(outs, Combo(regs, operand) % 8)
             ELSE outs]

\* No instruction that takes a combo operand has the reserved operand 7.
ValidProgram(prog) ==
    \A k \in 1..Len(prog) : prog[k][1] \in COMBO_OPCODES => prog[k][2] # 7

\* Every jnz names an instruction of the program.
JumpsInside(prog) ==
    \A k \in 1..Len(prog) : prog[k][1] = 3 => prog[k][2] < Len(prog)

\* A pass executes its instruction, the loop ends when the pointer has moved
\* past the last instruction, and what is returned then is the outputs,
\* comma-joined.
PassExecutes ==
    /\ pc = "while"
       => LET e == Executed(program, registers, instruction_pointer, outputs)
          IN  /\ registers' = e.registers
              /\ instruction_pointer' = e.instruction_pointer
              /\ outputs' = e.outputs
              /\ pc' = IF e.instruction_pointer >= Len(program)
                       THEN "join" ELSE "while"
    /\ pc = "join" => pc' = "returned" /\ result' = Join(outputs)

\* C15: first_exercise returns the comma-joined values of the executed out
\* instructions in execution order, every instruction acting as the puzzle
\* defines it and the run ending when the instruction pointer moves past the
\* last instruction.
C15_FirstExerciseRunsTheProgram ==
    [][(program # <<>> /\ ValidProgram(program)) => PassExecutes]_vars

\* C15 for the programs whose jumps stay inside the program.
C15_RunsTheProgramWhenJumpsInside ==
    [][(program # <<>> /\ ValidProgram(program) /\ JumpsInside(program))
       => PassExecutes]_vars

\* The example has returned what main.py expects.
C15_Witness ==
    /\ pc = "returned"
    /\ program = Example17.program
    /\ Len(outputs) = 10
    /\ result = "4,6,3,5,6,3,5,2,1,0"

\* The program gives itself when register A starts at a.
GivesItself(regs, prog, a) ==
    LET call == _apply_program([regs EXCEPT !.A = a], prog)
    IN  call.status = "returned" /\ call.output = Suffix(prog, 0)

\* The search leaves no value behind that makes the program give itself,
\* and the value it returns makes the program give itself.
StepSkipsNothing ==
    /\ pc \in {"for", "while"}
       => \A a \in registers.A..(registers'.A - 1) :
              ~GivesItself(registers, program, a)
    /\ pc' = "returned" => GivesItself(registers, program, result')

\* C16: second_exercise returns the lowest initial value of register A for
\* which the program gives itself; the search never skips a smaller one.
C16_SearchReturnsLowestValue ==
    [][program # <<>> => StepSkipsNothing]_vars

\* The only instruction that writes register A divides it by 8, and the
\* program ends by jumping to its first instruction.
ShiftsThreeBits(prog) ==
    /\ \E k \in 1..Len(prog) : prog[k] = <<0, 3>>
    /\ \A k \in 1..Len(prog) : prog[k][1] = 0 => prog[k][2] = 3
    /\ Last(prog) = <<3, 0>>

\* C16 for the programs that shift register A by three bits in every round.
C16_LowestValueWhenShiftsThreeBits ==
    [][(program # <<>> /\ ShiftsThreeBits(program)) => StepSkipsNothing]_vars

\* The search on the second example has returned what main.py expects.
C16_Witness ==
    /\ pc = "returned"
    /\ program = Example17_2.program
    /\ result = 117440

(***************************************************************************)
(* Day 20: the racetrack.  Positions are 0-based <<x, y>> as np.where      *)
(* gives them: x counts rows, y counts columns.  START, END and WALL have  *)
(* the values day 16 gives them.  A dict is a function from its keys.      *)
(***************************************************************************)
COST_MOVEMENT == 1

ALL_MOVEMENTS == << <<1, 0>>, <<-1, 0>>, <<0, 1>>, <<0, -1>> >>
ALL_MOVEMENTS_NEXT == << <<2, 0>>, <<-2, 0>>, <<0, 2>>, <<0, -2>> >>

\* dict[key] = value
Put(dict, key, value) ==
    [k \in DOMAIN dict \cup {key} |-> IF k = key THEN value ELSE dict[k]]

RECURSIVE QueueLoop(_, _, _, _)
\* The while loop of _solve_maze_best_score, lines 50-69: the dict it
\* leaves.  queue holds <<x, y, score>>.
QueueLoop(m, end, queue, visited) ==
    IF queue = <<>> THEN visited
    ELSE LET x == Head(queue)[1]
             y == Head(queue)[2]
             score == Head(queue)[3]
             max_y == Shape(m)[1]
             max_x == Shape(m)[2]
             is_visited == <<x, y>> \in DOMAIN visited
             is_out_of_bounds == x < 0 \/ y < 0 \/ x >= max_x \/ y >= max_y
         IN  IF <<x, y>> = end THEN Put(visited, end, score)
             ELSE IF is_visited \/ is_out_of_bounds
             THEN QueueLoop(m, end, Tail(queue), visited)
             ELSE IF At(m, <<x, y>>) = WALL
             THEN QueueLoop(m, end, Tail(queue), visited)
             ELSE QueueLoop(m, end,
                            Tail(queue)
                            \o [k \in 1..4 |->
                                   <<x + ALL_MOVEMENTS[k][1],
                                     y + ALL_MOVEMENTS[k][2],
                                     score + COST_MOVEMENT>>],
                            Put(visited, <<x, y>>, score))

\* visited_scores after _solve_maze_best_score, lines 46-71.
_solve_maze_best_score20(m, start, end) ==
    QueueLoop(m, end, << <<start[1], start[2], 0>> >>, <<>>)

\* cheat_time - time > at_least, line 100.
IsCheat(cheat_time, time, k) == cheat_time - time > k

\* _number_of_cheats, lines 86-103.  The cell next to a visited cell is
\* inside the array: the racetrack has walls all around.
_number_of_cheats(m, visited, k) ==
    LET counted ==
            {q \in (DOMAIN visited) \X (1..4) :
                LET x == q[1][1]
                    y == q[1][2]
                    time == visited[q[1]]
                    next == <<x + ALL_MOVEMENTS_NEXT[q[2]][1],
                              y + ALL_MOVEMENTS_NEXT[q[2]][2]>>
                    cheat_time == IF next \in DOMAIN visited
                                  THEN visited[next] ELSE time
                IN  /\ At(m, <<x + ALL_MOVEMENTS[q[2]][1],
                               y + ALL_MOVEMENTS[q[2]][2]>>) = WALL
                    /\ IsCheat(cheat_time, time, k)}
    IN  Cardinality(counted)

MaxWalls20 == 3
MaxAtLeast20 == 4

\* The racetracks of the family are made from this room.
Room20 ==
    << <<"#", "#", "#", "#", "#">>,
       <<"#", ".", ".", ".", "#">>,
       <<"#", ".", ".", ".", "#">>,
       <<"#", ".", ".", ".", "#">>,
       <<"#", "#", "#", "#", "#">> >>

\* inputs/example.txt, which main.py expects 44 for with at_least = 1.
Example20 ==
    << <<"#","#","#","#","#","#","#","#","#","#","#","#","#","#","#">>,
       <<"#",".",".",".","#",".",".",".","#",".",".",".",".",".","#">>,
       <<"#",".","#",".","#",".","#",".","#",".","#","#","#",".","#">>,
       <<"#","S","#",".",".",".","#",".","#",".","#",".",".",".","#">>,
       <<"#","#","#","#","#","#","#",".","#",".","#",".","#","#","#">>,
       <<"#","#","#","#","#","#","#",".","#",".","#",".",".",".","#">>,
       <<"#","#","#","#","#","#","#",".","#",".","#","#","#",".","#">>,
       <<"#","#","#",".",".","E","#",".",".",".","#",".",".",".","#">>,
       <<"#","#","#",".","#","#","#","#","#","#","#",".","#","#","#">>,
       <<"#",".",".",".","#","#","#",".",".",".","#",".",".",".","#">>,
       <<"#",".","#","#","#","#","#",".","#",".","#","#","#",".","#">>,
       <<"#",".","#",".",".",".","#",".","#",".","#",".",".",".","#">>,
       <<"#",".","#",".","#",".","#",".","#",".","#",".","#","#","#">>,
       <<"#",".",".",".","#",".",".",".","#",".",".",".","#","#","#">>,
       <<"#","#","#","#","#","#","#","#","#","#","#","#","#","#","#">> >>

Mazes20 ==
    {Example20}
    \cup UNION {UNION {Walled(SetMark(SetMark(Room20, s, START), e, END),
                              MaxWalls20)
                       : e \in FreeCells(Room20) \ {s}}
                : s \in FreeCells(Room20)}

\* first_exercise, lines 146-151.
Init20 ==
    /\ pc = "solve"
    /\ exercise = "first"
    /\ result = None
    /\ maze20 \in Mazes20
    /\ at_least \in 1..MaxAtLeast20
    /\ visited_scores20 = <<>>
    /\ IdleOthers20

\* Lines 153-158.
SolveMaze20 ==
    /\ pc = "solve"
    /\ visited_scores20' = _solve_maze_best_score20(
                               maze20, Where(maze20, START), Where(maze20, END))
    /\ pc' = "cheats"
    /\ UNCHANGED <<exercise, result, maze20, at_least>>
    /\ UNCHANGED others20

\* Line 160.
Return20 ==
    /\ pc = "cheats"
    /\ result' = _number_of_cheats(maze20, visited_scores20, at_least)
    /\ pc' = "returned"
    /\ UNCHANGED <<exercise, vars20>>
    /\ UNCHANGED others20

Next20 == SolveMaze20 \/ Return20

Spec20 == Init20 /\ [][Next20]_vars

(***************************************************************************)
(* Reference for day 20: the track, the distances along it and the cheats. *)
(***************************************************************************)
Track(m) == {p \in Cells(m) : At(m, p) # WALL}

RECURSIVE Within(_, _, _)
\* The track cells at most n steps from the cells of reached.
Within(m, reached, n) ==
    IF n = 0 THEN reached
    ELSE Within(m,
                reached \cup {q : q \in {p \in Track(m) :
                                            \E r \in reached : Adjacent(p, r)}},
                n - 1)

\* The number of steps from the start to p, for a p that can be reached.
Dist(m, p) ==
    CHOOSE n \in 0..Cardinality(Track(m)) :
        /\ p \in Within(m, {Where(m, START)}, n)
        /\ n > 0 => p \notin Within(m, {Where(m, START)}, n - 1)

Reachable(m) == Within(m, {Where(m, START)}, Cardinality(Track(m)))

\* The cheats: a start and an end on the track, two apart, a wall between.
Cheats(m) ==
    {c \in Reachable(m) \X Reachable(m) :
        \E k \in 1..4 :
            /\ c[2] = <<c[1][1] + ALL_MOVEMENTS_NEXT[k][1],
                        c[1][2] + ALL_MOVEMENTS_NEXT[k][2]>>
            /\ At(m, <<c[1][1] + ALL_MOVEMENTS[k][1],
                       c[1][2] + ALL_MOVEMENTS[k][2]>>) = WALL}

Saving(m, c) == Dist(m, c[2]) - Dist(m, c[1]) - 2

\* The track is one path from the start to the end.
SinglePath(m) ==
    /\ Reachable(m) = Track(m)
    /\ \A p \in Track(m) :
           Cardinality({q \in Track(m) : Adjacent(p, q)})
               = IF At(m, p) \in {START, END} THEN 1 ELSE 2

\* C17: for every at_least >= 1, first_exercise returns the number of cheats
\* that save at least at_least: pairs of track cells two apart with a wall
\* between, saving dist(end) - dist(start) - 2.
C17_FirstExerciseCountsCheatsSavingAtLeast ==
    (pc = "returned" /\ maze20 # <<>>)
    => result = Cardinality({c \in Cheats(maze20) : Saving(maze20, c) >= at_least})

\* C17 for a track that is one path and an even at_least.
C17_CountsCheatsWhenSinglePathAndEven ==
    (pc = "returned" /\ maze20 # <<>> /\ SinglePath(maze20) /\ at_least % 2 = 0)
    => result = Cardinality({c \in Cheats(maze20) : Saving(maze20, c) >= at_least})

\* The example has returned what main.py expects.
C17_Witness ==
    /\ pc = "returned"
    /\ maze20 = Example20
    /\ at_least = 1
    /\ result = 44

(***************************************************************************)
(* Day 05: the page ordering rules.  A page is the string of the file, a   *)
(* rule the pair <<X, Y>> of the line X|Y, a dict a function from its keys *)
(* to lists.                                                               *)
(***************************************************************************)
\* [n for n in numbers if n in kept]
Only(numbers, kept) == SelectSeq(numbers, LAMBDA n : n \in kept)

\* [n for n in numbers if n != page]
Without(numbers, page) == SelectSeq(numbers, LAMBDA n : n # page)

\* _parse_rules, lines 45-52: dict_rules_before, with the keys the rules
\* give it.
dict_rules_before(rs) ==
    [number \in {rs[k][2] : k \in 1..Len(rs)} |->
        LET matching == SelectSeq(rs, LAMBDA rule : rule[2] = number)
        IN  [k \in 1..Len(matching) |-> matching[k][1]]]

\* _parse_rules, lines 45-52: dict_rules_after.
dict_rules_after(rs) ==
    [number \in {rs[k][1] : k \in 1..Len(rs)} |->
        LET matching == SelectSeq(rs, LAMBDA rule : rule[1] = number)
        IN  [k \in 1..Len(matching) |-> matching[k][2]]]

\* dict[key] of a defaultdict(list), as a set.
Listed(dict, key) == IF key \in DOMAIN dict THEN Range(dict[key]) ELSE {}

\* The test of lines 157-168 fails for some page of the update.
NeedsCorrection(rs, ps) ==
    \E i \in 1..Len(ps) :
        \/ \E j \in 1..(i - 1) : ps[j] \notin Listed(dict_rules_before(rs), ps[i])
        \/ \E j \in (i + 1)..Len(ps) :
               ps[j] \notin Listed(dict_rules_after(rs), ps[i])

\* current_numbers_before, lines 96-100.
NumbersBefore(rs, ps) ==
    LET before == dict_rules_before(rs)
        keys == {number \in DOMAIN before :
                    /\ number \in Range(ps)
                    /\ Range(before[number]) \cap Range(ps) # {}}
    IN  [number \in keys |-> Only(before[number], Range(ps))]

\* current_numbers_before, lines 109-113.
NumbersBeforeWithout(current, page) ==
    LET keys == {number \in DOMAIN current : Without(current[number], page) # <<>>}
    IN  [number \in keys |-> Without(current[number], page)]

\* pages_copy.remove(page): the list without the first page equal to it.
Removed(ps, page) ==
    LET first == CHOOSE i \in 1..Len(ps) :
                     ps[i] = page /\ \A j \in 1..(i - 1) : ps[j] # page
    IN  SubSeq(ps, 1, first - 1) \o SubSeq(ps, first + 1, Len(ps))

\* int(page)
PageNumber(page) == CASE page = "1" -> 1 [] page = "2" -> 2 [] page = "3" -> 3

MaxPages05 == 3

Pages05 == {"1", "2", "3"}

\* The rules between two different pages, in the order the file lists them.
AllRules05 ==
    << <<"1", "2">>, <<"1", "3">>, <<"2", "1">>,
       <<"2", "3">>, <<"3", "1">>, <<"3", "2">> >>

\* The files: any of the rules, and one or two updates of at most MaxPages05
\* pages.
RuleLists05 ==
    {SelectSeq(AllRules05, LAMBDA rule : rule \in chosen)
     : chosen \in SUBSET Range(AllRules05)}

Updates05 == UNION {[1..n -> Pages05] : n \in 1..MaxPages05}

\* second_exercise, lines 150-153.
Init05 ==
    /\ pc = "for"
    /\ exercise = "second"
    /\ result = 0
    /\ rules \in RuleLists05
    /\ updates \in {<<u>> : u \in Updates05}
    /\ update_index = 0
    /\ pages = <<>>
    /\ pages_copy = <<>>
    /\ current_numbers_before = <<>>
    /\ pages_corrected = <<>>
    /\ middle_pages_to_sum = <<>>
    /\ IdleOthers05

\* Lines 154-168 for an update that passes the test: nothing is appended.
UpdateCorrect ==
    /\ pc = "for"
    /\ update_index < Len(updates)
    /\ ~NeedsCorrection(rules, updates[update_index + 1])
    /\ pages' = updates[update_index + 1]
    /\ update_index' = update_index + 1
    /\ UNCHANGED <<pc, exercise, result, rules, updates, pages_copy,
                   current_numbers_before, pages_corrected,
                   middle_pages_to_sum>>
    /\ UNCHANGED others05

\* Lines 154-169 and 94-102 for an update that fails the test:
\* _correct_pages_order is called and reaches its while loop.
UpdateToCorrect ==
    /\ pc = "for"
    /\ update_index < Len(updates)
    /\ NeedsCorrection(rules, updates[update_index + 1])
    /\ pages' = updates[update_index + 1]
    /\ pages_copy' = pages'
    /\ current_numbers_before' = NumbersBefore(rules, pages')
    /\ pages_corrected' = <<>>
    /\ pc' = "while"
    /\ UNCHANGED <<exercise, result, rules, updates, update_index,
                   middle_pages_to_sum>>
    /\ UNCHANGED others05

\* One pass of the while loop, lines 104-115: the first page of pages_copy
\* that is no key of current_numbers_before is moved; when there is none the
\* for loop ends and the pass changes nothing.
WhilePass ==
    /\ pc = "while"
    /\ pages_copy # <<>>
    /\ LET free == {i \in 1..Len(pages_copy) :
                       pages_copy[i] \notin DOMAIN current_numbers_before}
       IN  IF free = {}
           THEN UNCHANGED <<pages_copy, pages_corrected,
                            current_numbers_before>>
           ELSE LET page_copy ==
                        pages_copy[CHOOSE i \in free : \A j \in free : i <= j]
                IN  /\ pages_corrected' = Append(pages_corrected, page_copy)
                    /\ pages_copy' = Removed(pages_copy, page_copy)
                    /\ current_numbers_before' =
                           NumbersBeforeWithout(current_numbers_before,
                                                page_copy)
    /\ UNCHANGED <<pc, exercise, result, rules, updates, update_index, pages,
                   middle_pages_to_sum>>
    /\ UNCHANGED others05

\* Lines 117 and 173-176: the while loop has ended.
CorrectReturn ==
    /\ pc = "while"
    /\ pages_copy = <<>>
    /\ middle_pages_to_sum' =
           Append(middle_pages_to_sum,
                  PageNumber(pages_corrected[Len(pages_corrected) \div 2 + 1]))
    /\ update_index' = update_index + 1
    /\ pc' = "for"
    /\ UNCHANGED <<exercise, result, rules, updates, pages, pages_copy,
                   current_numbers_before, pages_corrected>>
    /\ UNCHANGED others05

\* Line 178.
Return05 ==
    /\ pc = "for"
    /\ update_index = Len(updates)
    /\ result' = SumSeq(middle_pages_to_sum)
    /\ pc' = "returned"
    /\ UNCHANGED <<exercise, vars05>>
    /\ UNCHANGED others05

Next05 ==
    UpdateCorrect \/ UpdateToCorrect \/ WhilePass \/ CorrectReturn \/ Return05

\* The interpreter goes on running the call.
Spec05 == Init05 /\ [][Next05]_vars /\ WF_vars(Next05)

\* C18: second_exercise runs to completion for every rule set and every
\* update: the while loop of _correct_pages_order removes a page in every
\* pass and ends.
C18_SecondExerciseRunsToCompletion ==
    (exercise = "second" /\ rules # <<>> /\ pc = "for" /\ update_index = 0)
        ~> (pc = "returned")

\* No two pages of the update are each, through the rules, to come before
\* the other.
RulesAcyclicOn(rs, ps) ==
    LET Ordered(a, b) == \E k \in 1..Len(rs) : rs[k] = <<a, b>>
        present == Range(ps)
    IN  ~\E a, b \in present :
            \/ Ordered(a, b) /\ Ordered(b, a)
            \/ \E c \in present : Ordered(a, b) /\ Ordered(b, c) /\ Ordered(c, a)

\* C18 for the updates whose pages the rules do not order in a circle: every
\* pass of the while loop removes one page.
C18_EveryPassRemovesAPageWhenAcyclic ==
    [][(pc = "while" /\ pc' = "while" /\ RulesAcyclicOn(rules, pages))
       => Len(pages_copy') = Len(pages_copy) - 1]_vars

(***************************************************************************)
(* Day 21: the keypads.  A str is the sequence of its characters; a keypad *)
(* is the array of its rows, None where it has no key; positions are       *)
(* 0-based <<x, y>> (x the row) as np.where gives them.                    *)
(***************************************************************************)
\* Line 10.
ACTIVATE == "A"

\* Lines 12-19.
NUMERICAL_KEYPAD ==
    << <<"7", "8", "9">>,
       <<"4", "5", "6">>,
       <<"1", "2", "3">>,
       <<None, "0", ACTIVATE>> >>

\* Line 21.
DIRECTIONAL_KEYPAD == << <<None, "^", ACTIVATE>>, <<"<", "v", ">">> >>

\* Line 23.
DICT_MOVEMENTS21(d) ==
    CASE d = <<-1, 0>> -> "^"
      [] d = <<1, 0>> -> "v"
      [] d = <<0, -1>> -> "<"
      [] d = <<0, 1>> -> ">"

\* Line 25.
ALL_MOVEMENTS21 == << <<0, -1>>, <<-1, 0>>, <<1, 0>>, <<0, 1>> >>

\* PRIORITY_MOVEMENTS_COST with the costs of "<" and ">" exchanged.
PRIORITY_MOVEMENTS_COST_Exchanged(char) ==
    CASE char = "<" -> 1
      [] char = "^" -> 2
      [] char = "v" -> 2
      [] char = ">" -> 3

\* Line 27.
PRIORITY_MOVEMENTS_COST(char) ==
    CASE char = "<" -> 3
      [] char = "^" -> 2
      [] char = "v" -> 2
      [] char = ">" -> 1

\* Line 29 and line 60: int(REGEX_NUMERIC.search(operation).group()), the
\* first run of digits of the code read as a decimal number.
DIGITS21 == <<"0", "1", "2", "3", "4", "5", "6", "7", "8", "9">>

DigitValue21(char) == (CHOOSE k \in 1..10 : DIGITS21[k] = char) - 1

RECURSIVE DigitRun(_, _, _)
DigitRun(operation, k, number) ==
    IF k > Len(operation) \/ operation[k] \notin Range(DIGITS21)
    THEN number
    ELSE DigitRun(operation, k + 1, 10 * number + DigitValue21(operation[k]))

\* Lines 57-63: the Code of one word of the file.
Code(operation) ==
    LET first == CHOOSE k \in 1..Len(operation) :
                     /\ operation[k] \in Range(DIGITS21)
                     /\ \A j \in 1..(k - 1) : operation[j] \notin Range(DIGITS21)
    IN  [operation |-> operation, complexity |-> DigitRun(operation, first, 0)]

\* Line 81.
Keypad(is_numerical_keyboard) ==
    IF is_numerical_keyboard THEN NUMERICAL_KEYPAD ELSE DIRECTIONAL_KEYPAD

\* Line 97.
IsOutOfBounds(keypad, x, y) ==
    x < 0 \/ y < 0 \/ x >= Len(keypad) \/ y >= Len(keypad[1])

\* Lines 99-100: the items of the queue that the loop does not drop.
OnAKey(keypad, item) ==
    /\ ~IsOutOfBounds(keypad, item.x, item.y)
    /\ At(keypad, <<item.x, item.y>>) # None

\* Lines 108-111, for the items of the queue that hold movements of one
\* length, in the order of the queue: the items appended for them, which
\* follow them in the queue in the same order.
Appended(keypad, items) ==
    LET kept == SelectSeq(items, LAMBDA item : OnAKey(keypad, item))
    IN  [k \in 1..(4 * Len(kept)) |->
            LET item == kept[((k - 1) \div 4) + 1]
                d == ALL_MOVEMENTS21[((k - 1) % 4) + 1]
            IN  [x |-> item.x + d[1], y |-> item.y + d[2],
                 movements |-> Append(item.movements, DICT_MOVEMENTS21(d))]]

\* Lines 88-111: the while loop, taken by the lengths of the movements.  The
\* items of the shortest length that stand on the operation are the
\* candidates (lines 102-106), in the order the queue gives them; the first
\* longer item ends the loop (lines 93-94).
RECURSIVE QueueLoop21(_, _, _)
QueueLoop21(keypad, operation, items) ==
    LET found == SelectSeq(items, LAMBDA item :
                     OnAKey(keypad, item)
                         /\ At(keypad, <<item.x, item.y>>) = operation)
    IN  IF found # <<>>
        THEN [k \in 1..Len(found) |-> found[k].movements]
        ELSE QueueLoop21(keypad, operation, Appended(keypad, items))

\* The costs of lines 150-165 are floats, quotients by 2, 3, 4 and 5; the
\* model keeps them exact as multiples of 1/60.
COST_UNIT == 60

\* Lines 155-165: the cost of one movement, from its character index + 1 on.
RECURSIVE CostLoop(_, _, _)
CostLoop(movement, index, cost) ==
    IF index + 2 > Len(movement)
    THEN cost
    ELSE LET char == movement[index + 2]
             prev_char == movement[index + 1]
             added == cost + (COST_UNIT * PRIORITY_MOVEMENTS_COST(char))
                                 \div (index + 2)
         IN  CostLoop(movement, index + 1,
                      IF char = prev_char THEN added * 2 ELSE added)

\* Lines 150-153, then the loop.
MovementCost(movement) ==
    CostLoop(movement, 0, COST_UNIT * PRIORITY_MOVEMENTS_COST(movement[1]))

\* Lines 139-167: max(..., key=...) gives the first movement of the
\* greatest cost.
_fix_shortest_movements(movements21) ==
    IF movements21 = << <<>> >>
    THEN <<>>
    ELSE LET greatest == CHOOSE k \in 1..Len(movements21) :
                 /\ \A j \in 1..Len(movements21) :
                        MovementCost(movements21[j]) <= MovementCost(movements21[k])
                 /\ \A j \in 1..(k - 1) :
                        MovementCost(movements21[j]) < MovementCost(movements21[k])
         IN  movements21[greatest]

\* Lines 67-111.
_compute_shortest_path(is_numerical_keyboard, operation, position) ==
    LET keypad == Keypad(is_numerical_keyboard)
        start_position == Where(keypad, position)
    IN  _fix_shortest_movements(
            QueueLoop21(keypad, operation,
                        <<[x |-> start_position[1], y |-> start_position[2],
                           movements |-> <<>>]>>))

\* keypad.flatten() without None, line 126 and lines 129-130.
KeysOf(keypad) ==
    {At(keypad, p) : p \in Cells(keypad)} \ {None}

\* Lines 113-137 for the numerical keypad; the @cache keeps the one dict.
NumericalShortestMap ==
    [pair \in KeysOf(NUMERICAL_KEYPAD) \X KeysOf(NUMERICAL_KEYPAD) |->
        Append(_compute_shortest_path(TRUE, pair[2], pair[1]), ACTIVATE)]

\* Lines 113-137 for the directional keypad.
DirectionalShortestMap ==
    [pair \in KeysOf(DIRECTIONAL_KEYPAD) \X KeysOf(DIRECTIONAL_KEYPAD) |->
        Append(_compute_shortest_path(FALSE, pair[2], pair[1]), ACTIVATE)]

\* Lines 113-137.
_get_shortest_map(is_numerical_keyboard) ==
    IF is_numerical_keyboard
    THEN NumericalShortestMap
    ELSE DirectionalShortestMap

\* Lines 169-200.
RECURSIVE _recursive_length(_, _, _)
_recursive_length(movements21, number_of_iterations, is_numerical_keyboard) ==
    IF number_of_iterations = 0
    THEN Len(movements21)
    ELSE LET shortest_mapping == _get_shortest_map(is_numerical_keyboard)
         IN  SumSeq([k \in 1..Len(movements21) |->
                 _recursive_length(
                     shortest_mapping[<<IF k = 1 THEN ACTIVATE
                                                 ELSE movements21[k - 1],
                                        movements21[k]>>],
                     number_of_iterations - 1, FALSE)])

\* The calls explored: every number of directional keypads up to
\* MaxKeypads21.
MaxKeypads21 == 2

\* The puzzle's example: 029A, 980A, 179A, 456A, 379A.
Example21 ==
    << Code(<<"0", "2", "9", "A">>), Code(<<"9", "8", "0", "A">>),
       Code(<<"1", "7", "9", "A">>), Code(<<"4", "5", "6", "A">>),
       Code(<<"3", "7", "9", "A">>) >>

\* A digit, or two digits, closed by the A key: the length of a code is the
\* sum over its pairs of consecutive keys (lines 193-199), and these codes
\* hold every pair of keys of the numerical keypad.
Words21 ==
    {<<a, ACTIVATE>> : a \in Range(DIGITS21)}
        \cup {<<a, b, ACTIVATE>> : a, b \in Range(DIGITS21)}

CodeLists21 == {<<Code(w)>> : w \in Words21} \cup {Example21}

\* _compute_complexity is entered, line 213.
Init21 ==
    /\ pc = "for"
    /\ exercise = None
    /\ result = None
    /\ codes \in CodeLists21
    /\ number_of_directional_keypads \in 0..MaxKeypads21
    /\ code_index = 0
    /\ total_length_code = 0
    /\ total_complexity = 0
    /\ IdleOthers21

\* Lines 214-223: one pass of the for loop.
CodePass ==
    /\ pc = "for"
    /\ code_index < Len(codes)
    /\ LET code == codes[code_index + 1]
           length == _recursive_length(code.operation,
                                       number_of_directional_keypads + 1, TRUE)
       IN  /\ total_length_code' = length
           /\ total_complexity' = total_complexity + length * code.complexity
    /\ code_index' = code_index + 1
    /\ UNCHANGED <<pc, exercise, result, codes, number_of_directional_keypads>>
    /\ UNCHANGED others21

\* Line 225.
Return21 ==
    /\ pc = "for"
    /\ code_index = Len(codes)
    /\ result' = total_complexity
    /\ pc' = "returned"
    /\ UNCHANGED <<exercise, vars21>>
    /\ UNCHANGED others21

Next21 == CodePass \/ Return21

Spec21 == Init21 /\ [][Next21]_vars

(***************************************************************************)
(* Day 21, reference: the chain of robots itself.  arms[1] is the arm over *)
(* the numerical keypad, arms[2], ... the arms over the directional        *)
(* keypads, the last one moved by the presses that are counted; typed is   *)
(* how many keys of the code the numerical keypad has received.            *)
(***************************************************************************)
Jammed == [typed |-> 0 - 1, arms |-> <<>>]

DirectionOf(key) ==
    CASE key = "^" -> <<-1, 0>>
      [] key = "v" -> <<1, 0>>
      [] key = "<" -> <<0, -1>>
      [] key = ">" -> <<0, 1>>

\* A key pressed on the keypad that moves arm number level: a direction
\* moves that arm, which must not come to point at a gap; A makes the arm
\* press the key it points at.
RECURSIVE PressKey(_, _, _, _)
PressKey(operation, chain, level, key) ==
    LET keypad == Keypad(level = 1)
        arm == chain.arms[level]
    IN  IF key # ACTIVATE
        THEN LET d == DirectionOf(key)
                 moved == <<arm[1] + d[1], arm[2] + d[2]>>
             IN  IF moved \in Cells(keypad) /\ At(keypad, moved) # None
                 THEN [chain EXCEPT !.arms[level] = moved]
                 ELSE Jammed
        ELSE IF level > 1
             THEN PressKey(operation, chain, level - 1, At(keypad, arm))
             ELSE IF chain.typed < Len(operation)
                        /\ operation[chain.typed + 1] = At(keypad, arm)
                  THEN [chain EXCEPT !.typed = chain.typed + 1]
                  ELSE Jammed

\* The least number of presses after which some chain of the frontier has
\* typed the whole code.
RECURSIVE FewestFrom(_, _, _, _, _)
FewestFrom(operation, top, frontier, seen, presses) ==
    IF \E chain \in frontier : chain.typed = Len(operation)
    THEN presses
    ELSE LET pressed == {PressKey(operation, chain, top, key) :
                             chain \in frontier,
                             key \in KeysOf(DIRECTIONAL_KEYPAD)}
             new == pressed \ (seen \cup {Jammed})
         IN  FewestFrom(operation, top, new, seen \cup new, presses + 1)

\* The length of a shortest sequence of presses that makes a chain with n
\* directional keypads worked by robots type the code.
FewestPresses(operation, n) ==
    LET start == [typed |-> 0,
                  arms |-> [level \in 1..(n + 1) |->
                               Where(Keypad(level = 1), ACTIVATE)]]
    IN  FewestFrom(operation, n + 1, {start}, {start}, 0)

\* Every path from one key to another that never lengthens the way and
\* never passes over a gap.
RECURSIVE PathsBetween(_, _, _)
PathsBetween(keypad, from, to) ==
    IF from = to
    THEN {<<>>}
    ELSE UNION {
             LET d == DirectionOf(key)
                 moved == <<from[1] + d[1], from[2] + d[2]>>
             IN  IF /\ moved \in Cells(keypad)
                    /\ At(keypad, moved) # None
                    /\ Abs(moved[1] - to[1]) + Abs(moved[2] - to[2])
                           < Abs(from[1] - to[1]) + Abs(from[2] - to[2])
                 THEN {<<key>> \o rest : rest \in PathsBetween(keypad, moved, to)}
                 ELSE {}
             : key \in {"^", "v", "<", ">"}}

SetMin21(S) == CHOOSE n \in S : \A other \in S : n <= other

\* The length the presses come to when, for every key to reach, the path is
\* chosen freely among the gap-avoiding ones.
RECURSIVE BestChoice(_, _, _)
BestChoice(movements21, number_of_iterations, is_numerical_keyboard) ==
    IF number_of_iterations = 0
    THEN Len(movements21)
    ELSE LET keypad == Keypad(is_numerical_keyboard)
         IN  SumSeq([k \in 1..Len(movements21) |->
                 SetMin21({BestChoice(Append(path, ACTIVATE),
                                      number_of_iterations - 1, FALSE) :
                     path \in PathsBetween(
                         keypad,
                         Where(keypad, IF k = 1 THEN ACTIVATE
                                                ELSE movements21[k - 1]),
                         Where(keypad, movements21[k]))})])

(***************************************************************************)
(* Day 21, claims.                                                         *)
(***************************************************************************)
\* C19: for every code and every number of directional keypads, the length
\* that _compute_complexity multiplies by the code's numeric part is the
\* length of a shortest sequence of presses that makes the chain of robots
\* type the code with no arm over a gap, and the one path per pair of keys
\* that _fix_shortest_movements keeps is never worse than any other choice
\* of gap-avoiding paths.
C19_LengthIsFewestPresses ==
    (pc = "for" /\ code_index > 0) =>
        LET code == codes[code_index]
        IN  /\ total_length_code =
                   FewestPresses(code.operation, number_of_directional_keypads)
            /\ total_length_code =
                   BestChoice(code.operation,
                              number_of_directional_keypads + 1, TRUE)

\* The example with two directional keypads: 126384.
C19_Witness ==
    /\ pc = "returned"
    /\ codes = Example21
    /\ number_of_directional_keypads = 2
    /\ result = 126384
    /\ total_length_code = 64

(***************************************************************************)
(* Day 24: the adder.  A str (a wire name, an operator, a key) is the      *)
(* sequence of its characters, None the empty sequence; an Operation is a  *)
(* record of its four fields; a dict is a function, and a dict whose order *)
(* the code uses is the sequence of its <<key, value>> items.              *)
(***************************************************************************)
NoWire == <<>>

AND == <<"A", "N", "D">>
OR == <<"O", "R">>
XOR == <<"X", "O", "R">>

\* The characters that occur, in the order of their code points: str < str
\* compares by code point.
CHARACTERS ==
    <<"0", "1", "2", "3", "4", "5", "6", "7", "8", "9",
      "A", "D", "N", "O", "R", "X", "_",
      "a", "b", "c", "d", "e", "f", "g", "h", "i", "j", "k", "l", "m",
      "n", "o", "p", "q", "r", "s", "t", "u", "v", "w", "x", "y", "z">>

CodePoint(char) == CHOOSE k \in 1..Len(CHARACTERS) : CHARACTERS[k] = char

\* left < right on str.
RECURSIVE StrLess(_, _)
StrLess(left, right) ==
    IF right = <<>> THEN FALSE
    ELSE IF left = <<>> THEN TRUE
    ELSE IF left[1] # right[1] THEN CodePoint(left[1]) < CodePoint(right[1])
    ELSE StrLess(Tail(left), Tail(right))

\* part in whole, on str.
StrIn(part, whole) ==
    \E k \in 0..(Len(whole) - Len(part)) :
        SubSeq(whole, k + 1, k + Len(part)) = part

\* whole.startswith(part).
StartsWith(whole, part) ==
    Len(part) <= Len(whole) /\ SubSeq(whole, 1, Len(part)) = part

\* f"{letter}{bit_position:02d}".
WireOfBit(letter, position) ==
    <<letter, CHARACTERS[(position \div 10) + 1], CHARACTERS[(position % 10) + 1]>>

\* Lines 30-39: operator.and_, operator.or_, operator.xor on 0 and 1.
logical_operator(logical_operator_str, left, right) ==
    CASE logical_operator_str = AND -> IF left = 1 /\ right = 1 THEN 1 ELSE 0
      [] logical_operator_str = OR -> IF left = 1 \/ right = 1 THEN 1 ELSE 0
      [] logical_operator_str = XOR -> IF left # right THEN 1 ELSE 0

\* Lines 136-183: the index of the first operation that matches, 0 for
\* None.  (operations.index of the operation found is that index: an equal
\* operation matches too.)
_find_operation(ops, gate_left, gate_right, logical_operator_str, result_wire) ==
    LET Matches(operation) ==
            \/ /\ \/ operation.left = gate_left /\ operation.right = gate_right
                  \/ operation.left = gate_right /\ operation.right = gate_left
                  \/ operation.left = gate_left
                  \/ operation.right = gate_left
                  \/ operation.left = gate_right
                  \/ operation.right = gate_right
               /\ operation.logical_operator_str = logical_operator_str
            \/ operation.result_wire = result_wire
        matching == {k \in 1..Len(ops) : Matches(ops[k])}
    IN  IF matching = {} THEN 0
        ELSE CHOOSE k \in matching : \A j \in matching : k <= j

\* Lines 185-218.
_ripple_carry_adder_correct(wv, position, carry_in) ==
    LET x == wv[WireOfBit("x", position)]
        y == wv[WireOfBit("y", position)]
        x_xor_y == logical_operator(XOR, x, y)
    IN  [current_bit_sum |-> logical_operator(XOR, x_xor_y, carry_in),
         carry_out |-> logical_operator(
                           OR, logical_operator(AND, x, y),
                           logical_operator(AND, x_xor_y, carry_in))]

\* Lines 220-232, where both wires have a value.
_apply_operation(operation, wv) ==
    logical_operator(operation.logical_operator_str,
                     wv[operation.left], wv[operation.right])

\* The keys of lines 540-552, 571-579 and 590-594.
OperationKey(operation) ==
    IF StrLess(operation.left, operation.right)
    THEN operation.left \o <<"_">> \o operation.logical_operator_str
             \o <<"_">> \o operation.right
    ELSE operation.right \o <<"_">> \o operation.logical_operator_str
             \o <<"_">> \o operation.left

\* key in the dict of items.
HasKey(items, key) == \E k \in 1..Len(items) : items[k][1] = key

\* What a call leaves when an exception ends it.
Raised24(exception) ==
    [status |-> exception, operations |-> <<>>, wire_values |-> <<>>,
     pos |-> 0, carry |-> NoWire]


\* wire_values[wire] = the operator applied to the values of two wires
\* (lines 361-409); <<>> when a wire has no value, a KeyError in the code.
Assigned(wv, wire, logical_operator_str, left, right) ==
    IF wv = <<>> \/ left \notin DOMAIN wv \/ right \notin DOMAIN wv
    THEN <<>>
    ELSE Put(wv, wire, logical_operator(logical_operator_str, wv[left], wv[right]))

\* operations[operations.index(_find_operation(...))].result_wire = wire
\* (lines 421-485); <<>> when no operation is found, a ValueError in the code.
Rewired(ops, gate_left, gate_right, logical_operator_str, wire) ==
    IF ops = <<>>
    THEN <<>>
    ELSE LET index == _find_operation(ops, gate_left, gate_right,
                                      logical_operator_str, NoWire)
         IN  IF index = 0
             THEN <<>>
             ELSE [ops EXCEPT ![index].result_wire = wire]

\* Lines 265-484: one pass of the for loop over no_swap + swap_candidates.
\* wires is the dict as its items; current holds, item by item, the index
\* of the operation that dict_current_operations has for the key; call
\* holds the other arguments of _swap_and_operate.
SwapPass(ops, wv, wires, current, swap_left, swap_right, call) ==
    LET carry_gate_in == call.carry_gate_in
        position == call.bit_position
        current_bit_sum == call.current_bit_sum
        carry_gate_out == call.carry_gate_out
        KeyIndex(Test(_)) ==
            LET hits == {k \in 1..Len(wires) : Test(wires[k][1])}
            IN  IF hits = {} THEN 0
                ELSE CHOOSE k \in hits : \A j \in hits : k <= j
        HasX(key) == StrIn(<<"x">>, key)
        Named(name, key) == StrIn(<<"_">> \o name \o <<"_">>, key)
        Chosen(Test(_), index) ==
            IF Test(swap_left[1]) THEN swap_right[2]
            ELSE IF Test(swap_right[1]) THEN swap_left[2]
            ELSE IF current[index] = 0 THEN NoWire
            ELSE ops[current[index]].result_wire
        x_xor_y_key == KeyIndex(LAMBDA key : Named(XOR, key) /\ HasX(key))
        x_xor_y_result ==
            Chosen(LAMBDA key : StrIn(XOR, key) /\ HasX(key), x_xor_y_key)
        x_and_y_key == KeyIndex(LAMBDA key : Named(AND, key) /\ HasX(key))
        x_and_y_result ==
            Chosen(LAMBDA key : StrIn(AND, key) /\ HasX(key), x_and_y_key)
        x_xor_y_xor_carry_key ==
            KeyIndex(LAMBDA key : Named(XOR, key) /\ ~HasX(key))
        x_xor_y_xor_carry_result ==
            Chosen(LAMBDA key : StrIn(XOR, key) /\ ~HasX(key),
                   x_xor_y_xor_carry_key)
        x_xor_y_and_carry_key ==
            KeyIndex(LAMBDA key : Named(AND, key) /\ ~HasX(key))
        x_xor_y_and_carry_result ==
            Chosen(LAMBDA key : StrIn(AND, key) /\ ~HasX(key),
                   x_xor_y_and_carry_key)
        x_xor_y_and_carry_or_x_and_y_key ==
            KeyIndex(LAMBDA key : Named(OR, key))
        x_xor_y_and_carry_or_x_and_y_result ==
            Chosen(LAMBDA key : Named(OR, key),
                   x_xor_y_and_carry_or_x_and_y_key)
        results == <<x_xor_y_result, x_and_y_result, x_xor_y_xor_carry_result,
                     x_xor_y_and_carry_result,
                     x_xor_y_and_carry_or_x_and_y_result>>
        is_and_correct_first ==
            /\ StrIn(x_xor_y_result, wires[x_xor_y_xor_carry_key][1])
            /\ StrIn(carry_gate_in, wires[x_xor_y_xor_carry_key][1])
        is_and_correct_second ==
            /\ StrIn(x_xor_y_result, wires[x_xor_y_and_carry_key][1])
            /\ StrIn(carry_gate_in, wires[x_xor_y_and_carry_key][1])
        is_or_correct ==
            /\ StrIn(x_xor_y_and_carry_result,
                     wires[x_xor_y_and_carry_or_x_and_y_key][1])
            /\ StrIn(x_and_y_result,
                     wires[x_xor_y_and_carry_or_x_and_y_key][1])
        x == WireOfBit("x", position)
        y == WireOfBit("y", position)
        wv1 == Assigned(wv, x_xor_y_result, XOR, x, y)
        wv2 == Assigned(wv1, x_and_y_result, AND, x, y)
        wv3 == Assigned(wv2, x_xor_y_xor_carry_result, XOR,
                        x_xor_y_result, carry_gate_in)
        wv4 == Assigned(wv3, x_xor_y_and_carry_result, AND,
                        x_xor_y_result, carry_gate_in)
        wv5 == Assigned(wv4, x_xor_y_and_carry_or_x_and_y_result, OR,
                        x_xor_y_and_carry_result, x_and_y_result)
        ops1 == Rewired(ops, x, y, XOR, x_xor_y_result)
        ops2 == Rewired(ops1, x, y, AND, x_and_y_result)
        ops3 == Rewired(ops2, x_xor_y_result, carry_gate_in, XOR,
                        x_xor_y_xor_carry_result)
        ops4 == Rewired(ops3, x_xor_y_result, carry_gate_in, AND,
                        x_xor_y_and_carry_result)
        ops5 == Rewired(ops4, x_xor_y_and_carry_result, x_and_y_result, OR,
                        x_xor_y_and_carry_or_x_and_y_result)
        PassEnds(status, ops_after, wv_after) ==
            [status |-> status, operations |-> ops_after,
             wire_values |-> wv_after,
             sum_wire |-> x_xor_y_xor_carry_result,
             carry_wire |-> x_xor_y_and_carry_or_x_and_y_result]
    IN  IF 0 \in {x_xor_y_key, x_and_y_key, x_xor_y_xor_carry_key,
                  x_xor_y_and_carry_key, x_xor_y_and_carry_or_x_and_y_key}
        THEN [status |-> "StopIteration", operations |-> ops,
              wire_values |-> wv, sum_wire |-> NoWire, carry_wire |-> NoWire]
        ELSE IF NoWire \in Range(results)
        THEN PassEnds("AttributeError", ops, wv)
        ELSE IF ~StartsWith(x_xor_y_xor_carry_result, <<"z">>)
        THEN PassEnds("continue", ops, wv)
        ELSE IF ~is_and_correct_first \/ ~is_and_correct_second \/ ~is_or_correct
        THEN PassEnds("continue", ops, wv)
        ELSE IF wv5 = <<>>
        THEN PassEnds("KeyError", ops, wv)
        ELSE IF ~(/\ current_bit_sum = wv5[x_xor_y_xor_carry_result]
                  /\ carry_gate_out = wv5[x_xor_y_and_carry_or_x_and_y_result])
        THEN PassEnds("continue", ops, wv5)
        ELSE IF ops5 = <<>>
        THEN PassEnds("ValueError", ops, wv5)
        ELSE PassEnds("break", ops5, wv5)

\* Lines 262-263: no_swap + swap_candidates.
SwapCandidates(wires) ==
    LET pairs == {p \in (1..Len(wires)) \X (1..Len(wires)) : p[1] < p[2]}
        Earlier(p, q) == p[1] < q[1] \/ (p[1] = q[1] /\ p[2] < q[2])
        combinations ==
            [k \in 1..Cardinality(pairs) |->
                CHOOSE p \in pairs :
                    Cardinality({q \in pairs : Earlier(q, p)}) = k - 1]
    IN  << << << <<"N">>, <<"o">> >>, << <<"i">>, <<"s">> >> >> >>
            \o [k \in 1..Len(combinations) |->
                   <<wires[combinations[k][1]], wires[combinations[k][2]]>>]

\* Lines 265-489 from candidate number index on; last is the pass before.
RECURSIVE SwapLoop(_, _, _, _, _, _, _, _)
SwapLoop(ops, wv, wires, current, candidates, index, call, last) ==
    IF index > Len(candidates) \/ last.status = "break"
    THEN IF last.sum_wire \notin DOMAIN last.wire_values
         THEN Raised24("KeyError")
         ELSE [status |-> "returned", operations |-> last.operations,
               wire_values |-> last.wire_values,
               pos |-> last.wire_values[last.sum_wire],
               carry |-> last.carry_wire]
    ELSE LET pass == SwapPass(ops, wv, wires, current,
                              candidates[index][1], candidates[index][2],
                              call)
         IN  IF pass.status \notin {"continue", "break"}
             THEN Raised24(pass.status)
             ELSE SwapLoop(pass.operations, pass.wire_values, wires, current,
                           candidates, index + 1, call, pass)

\* Lines 234-489.
_swap_and_operate(ops, wv, wires, carry_gate_in, position, bit_sum_and_carry) ==
    LET dict_current_operations ==
            [k \in 1..Len(wires) |->
                _find_operation(ops, NoWire, NoWire, <<>>, wires[k][2])]
    IN  SwapLoop(ops, wv, wires, dict_current_operations,
                 SwapCandidates(wires), 1,
                 [carry_gate_in |-> carry_gate_in, bit_position |-> position,
                  current_bit_sum |-> bit_sum_and_carry.current_bit_sum,
                  carry_gate_out |-> bit_sum_and_carry.carry_out],
                 [status |-> "continue", operations |-> ops,
                  wire_values |-> wv, sum_wire |-> NoWire,
                  carry_wire |-> NoWire])


\* possible_results[key] = wire unless the key is there (lines 559-560,
\* 581-582).
WithItem(items, key, wire) ==
    IF HasKey(items, key) THEN items ELSE Append(items, <<key, wire>>)

\* Lines 584-598: the loop over possible_results.values(), from item number
\* index on; it ends when it has added an item.
RECURSIVE OrLoop(_, _, _)
OrLoop(ops, items, index) ==
    IF index > Len(items)
    THEN items
    ELSE LET found == _find_operation(ops, items[index][2], NoWire, OR, NoWire)
         IN  IF found # 0 /\ ~HasKey(items, OperationKey(ops[found]))
             THEN Append(items, <<OperationKey(ops[found]),
                                  ops[found].result_wire>>)
             ELSE OrLoop(ops, items, index + 1)

\* Lines 563-582: the loop over possible_carry_gates.
CarryLoop(ops, items, carry_gate_in) ==
    LET with_xor == _find_operation(ops, carry_gate_in, NoWire, XOR, NoWire)
        after_xor ==
            IF with_xor = 0 THEN items
            ELSE WithItem(items, OperationKey(ops[with_xor]),
                          ops[with_xor].result_wire)
        with_and == _find_operation(ops, carry_gate_in, NoWire, AND, NoWire)
    IN  IF with_and = 0 THEN after_xor
        ELSE WithItem(after_xor, OperationKey(ops[with_and]),
                      ops[with_and].result_wire)

\* Lines 491-608.  carry_gate_in is NoWire in the first call, where
\* wire_values.get gives 0.
_ripple_carry_adder(wv, ops, position, carry_gate_in) ==
    LET x == WireOfBit("x", position)
        y == WireOfBit("y", position)
        z == WireOfBit("z", position)
        correct ==
            _ripple_carry_adder_correct(
                wv, position,
                IF carry_gate_in \in DOMAIN wv THEN wv[carry_gate_in] ELSE 0)
        x_xor_y == _find_operation(ops, x, y, XOR, NoWire)
        x_and_y == _find_operation(ops, x, y, AND, NoWire)
        z_operation == _find_operation(ops, NoWire, NoWire, <<>>, z)
    IN  IF x \notin DOMAIN wv \/ y \notin DOMAIN wv
        THEN Raised24("KeyError")
        ELSE IF position = 0
        THEN IF x_xor_y = 0 \/ x_and_y = 0
             THEN Raised24("AttributeError")
             ELSE LET wv1 == Assigned(wv, ops[x_xor_y].result_wire, XOR,
                                      ops[x_xor_y].left, ops[x_xor_y].right)
                      wv2 == Assigned(wv1, ops[x_and_y].result_wire, AND,
                                      ops[x_and_y].left, ops[x_and_y].right)
                  IN  IF wv2 = <<>> \/ z \notin DOMAIN wv2
                      THEN Raised24("KeyError")
                      ELSE IF /\ correct.current_bit_sum = wv2[z]
                              /\ correct.carry_out = wv2[ops[x_and_y].result_wire]
                      THEN [status |-> "returned", operations |-> ops,
                            wire_values |-> wv2,
                            pos |-> correct.current_bit_sum,
                            carry |-> ops[x_and_y].result_wire]
                      ELSE Raised24("ValueError")
        ELSE IF z_operation = 0 \/ x_xor_y = 0 \/ x_and_y = 0
        THEN Raised24("AttributeError")
        ELSE LET first_results ==
                     << <<x \o <<"_">> \o XOR \o <<"_">> \o y,
                          ops[x_xor_y].result_wire>>,
                        <<x \o <<"_">> \o AND \o <<"_">> \o y,
                          ops[x_and_y].result_wire>> >>
                 with_z == WithItem(first_results,
                                    OperationKey(ops[z_operation]),
                                    ops[z_operation].result_wire)
                 possible_results ==
                     OrLoop(ops, CarryLoop(ops, with_z, carry_gate_in), 1)
             IN  _swap_and_operate(ops, wv, possible_results, carry_gate_in,
                                   position, correct)

\* Lines 624-626.
CountZ(ops) ==
    Cardinality({k \in 1..Len(ops) : StartsWith(ops[k].result_wire, <<"z">>)})

\* sorted(...) of line 633, on a set of str.
RECURSIVE SortedStrs(_)
SortedStrs(strs) ==
    IF strs = {}
    THEN <<>>
    ELSE LET least == CHOOSE s \in strs :
                          \A other \in strs \ {s} : StrLess(s, other)
         IN  <<least>> \o SortedStrs(strs \ {least})

\* ",".join(...) of line 632.
RECURSIVE CommaJoin(_)
CommaJoin(strs) ==
    IF strs = <<>> THEN <<>>
    ELSE IF Len(strs) = 1 THEN strs[1]
    ELSE strs[1] \o <<",">> \o CommaJoin(Tail(strs))

\* Lines 632-638.
ChangedWires(ops, clean) ==
    LET changed == {k \in 1..Len(ops) : ops[k] \notin Range(clean)}
        count(wire) == Cardinality({k \in changed : ops[k].result_wire = wire})
        wires == {ops[k].result_wire : k \in changed}
        sorted == SortedStrs(wires)
        Repeated(wire) == [k \in 1..count(wire) |-> wire]
        RECURSIVE All(_)
        All(index) ==
            IF index > Len(sorted) THEN <<>>
            ELSE Repeated(sorted[index]) \o All(index + 1)
    IN  CommaJoin(All(1))


\* The calls explored: adders of up to MaxBits24 bits.
MaxBits24 == 2

Operation(left, logical_operator_str, right, result_wire) ==
    [left |-> left, right |-> right,
     logical_operator_str |-> logical_operator_str,
     result_wire |-> result_wire]

\* The gates of bit number position of a ripple-carry adder of bits bits,
\* as the puzzle writes them; the internal wires are named by a stem and
\* the number of the bit.
AdderBit(bits, stems, position) ==
    LET Named(stem, bit) == stem \o <<CHARACTERS[bit + 1]>>
        x == WireOfBit("x", position)
        y == WireOfBit("y", position)
        carry_out == IF position = bits - 1
                     THEN WireOfBit("z", bits)
                     ELSE Named(stems.carry, position)
    IN  IF position = 0
        THEN <<Operation(x, XOR, y, WireOfBit("z", 0)),
               Operation(x, AND, y, carry_out)>>
        ELSE <<Operation(x, XOR, y, Named(stems.sum, position)),
               Operation(x, AND, y, Named(stems.both, position)),
               Operation(Named(stems.sum, position), XOR,
                         Named(stems.carry, position - 1),
                         WireOfBit("z", position)),
               Operation(Named(stems.sum, position), AND,
                         Named(stems.carry, position - 1),
                         Named(stems.carried, position)),
               Operation(Named(stems.both, position), OR,
                         Named(stems.carried, position), carry_out)>>

RECURSIVE Adder24(_, _, _)
Adder24(bits, stems, position) ==
    IF position = bits
    THEN <<>>
    ELSE AdderBit(bits, stems, position) \o Adder24(bits, stems, position + 1)

\* The list read from the bottom of the file up, every gate with its two
\* input wires exchanged.
Mirrored(ops) ==
    [k \in 1..Len(ops) |->
        LET operation == ops[Len(ops) + 1 - k]
        IN  [operation EXCEPT !.left = operation.right,
                              !.right = operation.left]]

\* Two gates with their result wires exchanged.
Exchanged(ops, first, second) ==
    [ops EXCEPT ![first].result_wire = ops[second].result_wire,
                ![second].result_wire = ops[first].result_wire]

Stems24 ==
    [carry : {<<"c">>, <<"t">>, <<"c", "x">>},
     sum : {<<"s">>, <<"s", "x">>},
     both : {<<"a">>, <<"a", "x">>},
     carried : {<<"b">>}]

\* The adders, and the adders with the result wires of two gates of the
\* last bit exchanged.
Circuits24 ==
    LET adders == {Adder24(bits, stems, 0) :
                       bits \in 1..MaxBits24, stems \in Stems24}
        listed == adders \cup {Mirrored(ops) : ops \in adders}
    IN  listed \cup
            {Exchanged(ops, pair[1], pair[2]) :
                 ops \in {a \in listed : Len(a) > 2},
                 pair \in {p \in (1..5) \X (1..5) : p[1] < p[2]}}

\* The initial wire values of the file: a value for every x and y wire.
InputValues24(ops) ==
    LET inputs == {WireOfBit(letter, position) :
                       letter \in {"x", "y"},
                       position \in 0..(CountZ(ops) - 2)}
    IN  [inputs -> {0, 1}]

\* second_exercise is entered: lines 619-628.
Init24 ==
    /\ pc = "for"
    /\ exercise = "second"
    /\ result = None
    /\ operations \in Circuits24
    /\ operations_clean = operations
    /\ wire_values \in InputValues24(operations)
    /\ n_bits = CountZ(operations)
    /\ bit_index = 0
    /\ carry = NoWire
    /\ IdleOthers24

\* Lines 629-630: one pass of the for loop, the call returns.
AdderCall ==
    /\ pc = "for"
    /\ bit_index < n_bits - 1
    /\ LET call == _ripple_carry_adder(wire_values, operations, bit_index, carry)
       IN  /\ call.status = "returned"
           /\ operations' = call.operations
           /\ wire_values' = call.wire_values
           /\ carry' = call.carry
    /\ bit_index' = bit_index + 1
    /\ UNCHANGED <<pc, exercise, result, operations_clean, n_bits>>
    /\ UNCHANGED others24

\* Lines 629-630: the call ends in an exception, which nothing catches.
AdderRaise ==
    /\ pc = "for"
    /\ bit_index < n_bits - 1
    /\ _ripple_carry_adder(wire_values, operations, bit_index, carry).status
           # "returned"
    /\ pc' = "raised"
    /\ UNCHANGED <<exercise, result, vars24>>
    /\ UNCHANGED others24

\* Lines 632-638: the for loop has ended.
Return24 ==
    /\ pc = "for"
    /\ bit_index >= n_bits - 1
    /\ result' = ChangedWires(operations, operations_clean)
    /\ pc' = "returned"
    /\ UNCHANGED <<exercise, vars24>>
    /\ UNCHANGED others24

Next24 == AdderCall \/ AdderRaise \/ Return24

Spec24 == Init24 /\ [][Next24]_vars

(***************************************************************************)
(* Day 24, reference: what a correct ripple-carry adder is.                *)
(***************************************************************************)
\* The result wires of the gates with this operator and these two inputs,
\* in either order.
GateOutputs(ops, logical_operator_str, first, second) ==
    {ops[k].result_wire : k \in
        {j \in 1..Len(ops) :
            /\ ops[j].logical_operator_str = logical_operator_str
            /\ {ops[j].left, ops[j].right} = {first, second}}}

\* The carry-out wires that bit number position can have in a correct
\* adder, given the carry out of the bit below: x XOR y, x AND y,
\* (x XOR y) XOR carry-in -> z, (x XOR y) AND carry-in, and the OR of the
\* two ANDs.
RECURSIVE CarryOuts(_, _)
CarryOuts(ops, position) ==
    LET x == WireOfBit("x", position)
        y == WireOfBit("y", position)
        z == WireOfBit("z", position)
    IN  IF position = 0
        THEN IF z \in GateOutputs(ops, XOR, x, y)
             THEN GateOutputs(ops, AND, x, y)
             ELSE {}
        ELSE UNION {GateOutputs(ops, OR, both, carried) :
                 <<carry_in, sum, both, carried>> \in
                     {q \in CarryOuts(ops, position - 1)
                            \X GateOutputs(ops, XOR, x, y)
                            \X GateOutputs(ops, AND, x, y)
                            \X {ops[k].result_wire : k \in 1..Len(ops)} :
                         /\ z \in GateOutputs(ops, XOR, q[2], q[1])
                         /\ q[4] \in GateOutputs(ops, AND, q[2], q[1])}}

IsRippleCarryAdder(ops) ==
    LET bits == CountZ(ops) - 1
    IN  /\ bits >= 1
        /\ Len(ops) = 5 * bits - 3
        /\ \A j, k \in 1..Len(ops) :
               ops[j].result_wire = ops[k].result_wire => j = k
        /\ WireOfBit("z", bits) \in CarryOuts(ops, bits - 1)

ResultWires(ops) == [k \in 1..Len(ops) |-> ops[k].result_wire]

(***************************************************************************)
(* Day 24, claims.                                                         *)
(***************************************************************************)
\* C20: when the gate list already is a correct ripple-carry adder,
\* second_exercise changes no gate's result_wire for any bit and returns
\* the empty string, whatever the names of the internal wires.
C20_CorrectAdderIsLeftAlone ==
    IsRippleCarryAdder(operations_clean) =>
        /\ pc # "raised"
        /\ ResultWires(operations) = ResultWires(operations_clean)
        /\ pc = "returned" => result = <<>>

\* No gate that takes two internal wires has an x in the name of either.
NoXInsideKeys(ops) ==
    \A k \in 1..Len(ops) :
        {ops[k].left, ops[k].right} \subseteq Range(ResultWires(ops))
            /\ ops[k].logical_operator_str \in {XOR, AND}
        => ~StrIn(<<"x">>, ops[k].left) /\ ~StrIn(<<"x">>, ops[k].right)

\* C20 for the adders whose sum and carry wires have no x in their names.
C20_LeftAloneWhenNoXInsideKeys ==
    (IsRippleCarryAdder(operations_clean) /\ NoXInsideKeys(operations_clean)) =>
        /\ pc # "raised"
        /\ ResultWires(operations) = ResultWires(operations_clean)
        /\ pc = "returned" => result = <<>>

\* A correct adder of two bits has gone through second_exercise.
C20_Witness ==
    /\ IsRippleCarryAdder(operations_clean)
    /\ n_bits = 3
    /\ pc = "returned"
    /\ result = <<>>
====
